---- MODULE Spec2Model ----
(***************************************************************************)
(* The VAE training controller of molecules.ml.unsupervised.vae.vae:       *)
(* VAE.train, VAE._train, VAE._validate and VAE._load_checkpoint, with the *)
(* gradient scaler they drive and the callbacks they dispatch to.          *)
(*                                                                         *)
(* One behaviour is the life of one VAE object: construction (Init), then  *)
(* calls of train().  A call is split at every callback invocation, so a   *)
(* state is a position in the code (pc, ci) plus the object's fields and   *)
(* the locals of the running call.                                         *)
(***************************************************************************)
EXTENDS Integers, Sequences, FiniteSets, TLC

\* ------------------------------------------------------------------ bounds
\* Largest epochs argument of the small runs.
MaxEpochs == 3
\* Largest number of batches a small batch source yields.
MaxBatches == 2
\* Number of train() calls on one VAE object.
MaxCalls == 2
\* Epochs of the run whose every batch has non-finite gradients.
LongEpochs == 168

\* ------------------------------------------------------- program constants
\* amp.GradScaler() defaults: init_scale 2.0**16, growth_interval 2000.
InitScaleExp == 16
GrowthInterval == 2000
\* The scale is a float32: 2^-149 is its smallest positive value and 2^127
\* its largest power of two.
Float32MinExp == -149
Float32MaxExp == 127

VARIABLES
    \* the VAE object (VAE.__init__)
    enc,          \* self.model.encoder weights
    dec,          \* self.model.decoder weights
    opt,          \* self.optimizer state
    training,     \* self.model.training (set by model.train() / model.eval())
    gscaler,      \* self.gscaler
    lambda_rec,   \* self.lambda_rec
    grad,         \* the .grad of the parameters: the batches accumulated in it
    \* the arguments of the running train() call and what its sources yield
    train_len,    \* len(train_loader)
    valid_len,    \* len(valid_loader)
    epochs,
    checkpoint,
    callbacks,
    src,          \* what the batch sources yield: losses and gradient outcomes
    \* the locals of train(), _train() and _validate()
    pc,
    ci,           \* position of the running "for callback in callbacks" loop
    start_epoch,
    epoch,
    batch_idx,
    train_loss,
    valid_loss,
    cur,          \* loss_rec, loss_kld of the batch in hand
    logs,
    raised,       \* the exception that left train(), "" when none
    \* the callbacks' own state and the checkpoint directory
    cbs,
    disk,
    \* history
    trace,        \* the hooks and steps so far, in order
    calls,        \* the arguments of the train() calls so far
    \* the code around the controller, each a run of its own
    ctor,         \* a run of VAE.__init__: its arguments, position and fields
    main,         \* a run of the resume discovery of example_vae.main
    hp,           \* a hyperparameter record under test
    shard,        \* the processes of a distributed run splitting the datasets
    tune,         \* a run of the configuration code of hpo_aae.main
    emb,          \* an EmbeddingCallback object
    dataset       \* the two ContactMapDataset objects over one file

vars == <<enc, dec, opt, training, gscaler, lambda_rec, grad, train_len,
          valid_len, epochs, checkpoint, callbacks, src, pc, ci, start_epoch,
          epoch, batch_idx, train_loss, valid_loss, cur, logs, raised, cbs,
          disk, trace, calls, ctor, main, hp, shard, tune, emb, dataset>>

\* What a train() call never touches.
unitVars == <<shard, tune, emb, dataset>>

glueVars == <<ctor, main, hp, unitVars>>

\* ----------------------------------------------------------------- values
\* Weights and optimizer state: where they came from and how many optimizer
\* steps were applied since.
W(origin, steps) == [origin |-> origin, steps |-> steps]

Stepped(w) == [w EXCEPT !.steps = @ + 1]

\* A python name that holds no value yet.
Unbound == -1

\* A dict: a function from its keys.
EmptyDict == [k \in {} |-> 0]

Put(d, k, v) == [x \in DOMAIN d \cup {k} |-> IF x = k THEN v ELSE d[x]]

\* A float32 power of two, zero, or infinity.
Scale(e) == [kind |-> "finite", exp |-> e]

ScaleZero == [kind |-> "zero", exp |-> Float32MinExp - 1]

ScaleInf == [kind |-> "inf", exp |-> Float32MaxExp + 1]

\* a < b as numbers.
ScaleLess(a, b) == a.exp < b.exp

\* ------------------------------------------------------ the gradient scaler
\* amp.GradScaler(enabled=...): the scale starts at 2^16, no step seen yet.
NewScaler(enabled) ==
    [enabled |-> enabled, scale |-> Scale(InitScaleExp), growth_tracker |-> 0]

\* scale * backoff_factor (0.5) in float32: half of 2^-149 rounds to 0, and
\* zero and infinity stay what they are.
Backoff(s) ==
    IF s.kind # "finite" THEN s
    ELSE IF s.exp = Float32MinExp THEN ScaleZero
    ELSE Scale(s.exp - 1)

\* scale * growth_factor (2.0) in float32: twice 2^127 is infinity, and zero
\* and infinity stay what they are.
Growth(s) ==
    IF s.kind # "finite" THEN s
    ELSE IF s.exp = Float32MaxExp THEN ScaleInf
    ELSE Scale(s.exp + 1)

\* What ScalerSteps would be if the scaler never skipped optimizer.step().
ScalerStepsAlways(g, nonfinite) == TRUE

\* gscaler.step(optimizer): whether optimizer.step() runs.  A disabled scaler
\* always steps; an enabled one skips the step when it found non-finite
\* gradients.
ScalerSteps(g, nonfinite) == ~g.enabled \/ ~nonfinite

\* gscaler.update(): back off after non-finite gradients, grow after
\* growth_interval consecutive clean steps; a disabled scaler does nothing.
ScalerUpdate(g, nonfinite) ==
    IF ~g.enabled THEN g
    ELSE IF nonfinite
         THEN [g EXCEPT !.scale = Backoff(@), !.growth_tracker = 0]
    ELSE IF g.growth_tracker + 1 = GrowthInterval
         THEN [g EXCEPT !.scale = Growth(@), !.growth_tracker = 0]
    ELSE [g EXCEPT !.growth_tracker = @ + 1]

\* ------------------------------------------------------------- checkpoints
CkptKeys ==
    {"encoder_state_dict", "decoder_state_dict", "optimizer_state_dict", "epoch"}

\* The record a checkpoint file holds.
CkptFile(e, d, o, ep) ==
    [k \in CkptKeys |->
        CASE k = "encoder_state_dict" -> e
          [] k = "decoder_state_dict" -> d
          [] k = "optimizer_state_dict" -> o
          [] OTHER -> W("epoch", ep)]   \* the integer ep

\* A checkpoint file without the keys in `missing`.
Without(cp, missing) == [k \in DOMAIN cp \ missing |-> cp[k]]

\* The checkpoint argument of train(): None, the empty string, or a path.
NoCheckpoint == [kind |-> "None", file |-> EmptyDict]

EmptyPath == [kind |-> "empty", file |-> EmptyDict]

Path(cp) == [kind |-> "path", file |-> cp]

\* "if checkpoint:" is python truthiness: None and '' are false.
Truthy(c) == c.kind = "path"

\* What ReturnedEpoch would be if the stored epoch were dropped.
ReturnedEpochDropped(cp) == 0

\* return cp["epoch"]
ReturnedEpoch(cp) == cp["epoch"].steps

\* VAE._load_checkpoint: the statements run in order and cp[key] raises
\* KeyError at the first missing key, after the earlier loads took effect.
LoadCheckpoint(cp, e, d, o) ==
    IF "encoder_state_dict" \notin DOMAIN cp
    THEN [enc |-> e, dec |-> d, opt |-> o, epoch |-> Unbound, raised |-> "KeyError"]
    ELSE IF "decoder_state_dict" \notin DOMAIN cp
    THEN [enc |-> cp["encoder_state_dict"], dec |-> d, opt |-> o,
          epoch |-> Unbound, raised |-> "KeyError"]
    ELSE IF "optimizer_state_dict" \notin DOMAIN cp
    THEN [enc |-> cp["encoder_state_dict"], dec |-> cp["decoder_state_dict"],
          opt |-> o, epoch |-> Unbound, raised |-> "KeyError"]
    ELSE IF "epoch" \notin DOMAIN cp
    THEN [enc |-> cp["encoder_state_dict"], dec |-> cp["decoder_state_dict"],
          opt |-> cp["optimizer_state_dict"], epoch |-> Unbound,
          raised |-> "KeyError"]
    ELSE [enc |-> cp["encoder_state_dict"], dec |-> cp["decoder_state_dict"],
          opt |-> cp["optimizer_state_dict"], epoch |-> ReturnedEpoch(cp),
          raised |-> ""]

\* --------------------------------------------------------------- callbacks
\* The callbacks of a run, by kind:
\*   "loss"    LossCallback: keeps the per-epoch loss history
\*   "ckpt"    CheckpointCallback: writes a checkpoint file at every epoch end
\*   "writer"  appends the epoch to logs["shared"] in on_epoch_end
\*   "reader"  remembers the logs["shared"] it sees in on_epoch_end
\*   "raiser"  raises in the hook the run names (src.raise_at)
NewCallbacks ==
    [train_losses |-> <<>>, valid_losses |-> <<>>, epochs |-> <<>>,
     observed |-> <<>>]

Get(d, k, default) == IF k \in DOMAIN d THEN d[k] ELSE default

\* LossCallback.on_train_begin / on_epoch_end.
LossCallback(hook, e, lg, st) ==
    CASE hook = "on_train_begin" ->
            [st EXCEPT !.train_losses = <<>>, !.valid_losses = <<>>,
                       !.epochs = <<>>]
      [] hook = "on_epoch_end" ->
            [st EXCEPT !.train_losses = Append(@, lg["train_loss_average"]),
                       !.valid_losses = Append(@, lg["valid_loss"]),
                       !.epochs = Append(@, e)]
      [] OTHER -> st

\* CheckpointCallback.on_epoch_end: the file it adds to the directory.
CheckpointCallback(hook, e, dk, ec, dc, op) ==
    IF hook = "on_epoch_end" THEN Append(dk, CkptFile(ec, dc, op, e)) ELSE dk

\* The writer's on_epoch_end: logs["shared"].append(epoch).
WriterCallback(hook, e, lg) ==
    IF hook = "on_epoch_end"
    THEN Put(lg, "shared", Append(Get(lg, "shared", <<>>), e))
    ELSE lg

\* The reader's on_epoch_end: keeps what logs["shared"] holds now.
ReaderCallback(hook, e, lg, st) ==
    IF hook = "on_epoch_end"
    THEN [st EXCEPT !.observed = Append(@, Get(lg, "shared", <<>>))]
    ELSE st

\* An entry of the history: hook `ev` of the callback at position cb of the
\* list (0: a step of the controller itself), with its epoch and batch
\* arguments and the logs["global_step"] it was handed.
Ev(ev, cb, e, b, gs) ==
    [ev |-> ev, cb |-> cb, epoch |-> e, batch |-> b, global_step |-> gs]

\* What LoopOrder would be if the list were visited back to front.
LoopOrderReversed(cbl) == [i \in 1..Len(cbl) |-> cbl[Len(cbl) + 1 - i]]

\* The order in which "for callback in callbacks" visits the list.
LoopOrder(cbl) == cbl

\* Whether the hook of a callback of this kind raises.
Raises(kind, hook) == kind = "raiser" /\ hook = src.raise_at

\* What AfterHook would be with the hook call wrapped in try/except.
AfterHookCaught(raises, at) == at

\* Where control is after one callback's hook returned or raised: the loops
\* over the callbacks have no try/except, so an exception leaves train().
AfterHook(raises, at) == IF raises THEN "raised" ELSE at

\* One turn of "for callback in callbacks: callback.<hook>(...)": the next
\* callback's hook runs on the shared logs, or the loop is over and control
\* moves to `after`.
Dispatch(hook, e, b, after) ==
    /\ pc = hook
    /\ IF ci <= Len(LoopOrder(callbacks))
       THEN LET kind == LoopOrder(callbacks)[ci]
                raises == Raises(kind, hook) IN
            /\ logs' = IF kind = "writer" THEN WriterCallback(hook, e, logs)
                       ELSE logs
            /\ cbs' = CASE kind = "loss" -> LossCallback(hook, e, logs, cbs)
                        [] kind = "reader" -> ReaderCallback(hook, e, logs, cbs)
                        [] OTHER -> cbs
            /\ disk' = IF kind = "ckpt"
                       THEN CheckpointCallback(hook, e, disk, enc, dec, opt)
                       ELSE disk
            /\ trace' = Append(trace,
                               Ev(hook, ci, e, b, Get(logs, "global_step", Unbound)))
            /\ ci' = ci + 1
            /\ pc' = AfterHook(raises, pc)
            /\ raised' = IF raises THEN "CallbackError" ELSE raised
       ELSE /\ pc' = after
            /\ ci' = 1
            /\ UNCHANGED <<logs, cbs, disk, trace, raised>>

objVars == <<enc, dec, opt, training, gscaler, lambda_rec, grad, glueVars>>

argVars == <<train_len, valid_len, epochs, checkpoint, callbacks, src>>

localVars == <<start_epoch, epoch, batch_idx, train_loss, valid_loss, cur>>

\* ------------------------------------------------------------- VAE.train
\* logs as train() builds it (no process group: no "comm_size" entry).
InitialLogs(cbl) ==
    IF cbl # <<>>
    THEN Put(Put(EmptyDict, "model", "handle"), "optimizer", "optimizer")
    ELSE EmptyDict

\* What StartEpoch would be with start_epoch = self._load_checkpoint(...).
StartEpochIsLoaded(loaded) == loaded

\* start_epoch = 1; start_epoch += self._load_checkpoint(checkpoint)
StartEpoch(loaded) == 1 + loaded

\* What OnEpochBegin would be with _validate called before _train.
OnEpochBeginThenValidate ==
    /\ Dispatch("on_epoch_begin", epoch, Unbound, "_validate")
    /\ UNCHANGED <<objVars, argVars, localVars, calls>>

\* What OnTrainBegin would be with the on_train_begin loop left out.
OnTrainBeginLeftOut ==
    /\ pc = "on_train_begin"
    /\ pc' = "epoch_loop"
    /\ UNCHANGED <<objVars, argVars, ci, localVars, logs, raised, cbs, disk,
                   trace, calls>>

\* What AfterLoad would be if train() swallowed the load's exception.
AfterLoadSwallowed(r) == "on_train_begin"

\* What EpochLoop would be if its body ran once before the range was tested.
EpochLoopAtLeastOnce ==
    /\ pc = "epoch_loop"
    /\ LET next == IF epoch = Unbound THEN start_epoch ELSE epoch + 1 IN
       IF next <= epochs \/ epoch = Unbound
       THEN /\ epoch' = next
            /\ pc' = "on_epoch_begin"
       ELSE /\ pc' = "on_train_end"
            /\ UNCHANGED epoch
    /\ UNCHANGED <<objVars, argVars, ci, start_epoch, batch_idx, train_loss,
                   valid_loss, cur, logs, raised, cbs, disk, trace, calls>>

\* What EpochLoop would be with range(start_epoch, epochs + 2).
EpochLoopOneMore ==
    /\ pc = "epoch_loop"
    /\ LET next == IF epoch = Unbound THEN start_epoch ELSE epoch + 1 IN
       IF next <= epochs + 1
       THEN /\ epoch' = next
            /\ pc' = "on_epoch_begin"
       ELSE /\ pc' = "on_train_end"
            /\ UNCHANGED epoch
    /\ UNCHANGED <<objVars, argVars, ci, start_epoch, batch_idx, train_loss,
                   valid_loss, cur, logs, raised, cbs, disk, trace, calls>>

\* Where train() goes after self._load_checkpoint(checkpoint): an exception
\* of the load is not caught, so it leaves train().
AfterLoad(r) == IF r.raised # "" THEN "raised" ELSE "on_train_begin"

\* What ScalerAfterLoad would be if loading a checkpoint made a new scaler.
ScalerAfterLoadReset(g) == NewScaler(g.enabled)

\* self.gscaler after _load_checkpoint: the checkpoint holds no scaler state
\* and the load assigns none, so the scaler is the one the object had.
ScalerAfterLoad(g) == g

\* train(), from its entry to the first on_train_begin: build logs, set
\* start_epoch, load the checkpoint if one is given.
TrainCall ==
    /\ pc = "idle"
    /\ logs' = InitialLogs(callbacks)
    /\ calls' = Append(calls, [checkpoint |-> checkpoint, epochs |-> epochs,
                                at |-> Len(trace) + 1])
    /\ ci' = 1
    /\ trace' = Append(trace, Ev("train", 0, Unbound, Unbound, Unbound))
    /\ IF Truthy(checkpoint)
       THEN LET r == LoadCheckpoint(checkpoint.file, enc, dec, opt) IN
            /\ enc' = r.enc
            /\ dec' = r.dec
            /\ opt' = r.opt
            /\ gscaler' = ScalerAfterLoad(gscaler)
            /\ pc' = AfterLoad(r)
            /\ raised' = r.raised
            /\ start_epoch' = IF r.raised # "" THEN 1 ELSE StartEpoch(r.epoch)
       ELSE /\ pc' = "on_train_begin"
            /\ raised' = ""
            /\ start_epoch' = StartEpoch(0)
            /\ UNCHANGED <<enc, dec, opt, gscaler>>
    /\ epoch' = Unbound
    /\ UNCHANGED <<training, lambda_rec, grad, glueVars, argVars, batch_idx,
                   train_loss, valid_loss, cur, cbs, disk>>

OnTrainBegin ==
    /\ Dispatch("on_train_begin", Unbound, Unbound, "epoch_loop")
    /\ UNCHANGED <<objVars, argVars, localVars, calls>>

\* for epoch in range(start_epoch, epochs + 1)
EpochLoop ==
    /\ pc = "epoch_loop"
    /\ LET next == IF epoch = Unbound THEN start_epoch ELSE epoch + 1 IN
       IF next <= epochs
       THEN /\ epoch' = next
            /\ pc' = "on_epoch_begin"
       ELSE /\ pc' = "on_train_end"
            /\ UNCHANGED epoch
    /\ UNCHANGED <<objVars, argVars, ci, start_epoch, batch_idx, train_loss,
                   valid_loss, cur, logs, raised, cbs, disk, trace, calls>>

OnEpochBegin ==
    /\ Dispatch("on_epoch_begin", epoch, Unbound, "_train")
    /\ UNCHANGED <<objVars, argVars, localVars, calls>>

OnEpochEnd ==
    /\ Dispatch("on_epoch_end", epoch, Unbound, "epoch_loop")
    /\ UNCHANGED <<objVars, argVars, localVars, calls>>

OnTrainEnd ==
    /\ Dispatch("on_train_end", Unbound, Unbound, "done")
    /\ UNCHANGED <<objVars, argVars, localVars, calls>>

\* ------------------------------------------------------------ VAE._train
\* self.model.train(); train_loss = 0.0
TrainPassBegin ==
    /\ pc = "_train"
    /\ training' = TRUE
    /\ train_loss' = 0
    /\ batch_idx' = Unbound
    /\ pc' = "train_batch"
    /\ UNCHANGED <<enc, dec, opt, gscaler, lambda_rec, grad, glueVars, argVars, ci,
                   start_epoch, epoch, valid_loss, cur, logs, raised, cbs,
                   disk, trace, calls>>

\* for batch_idx, token in enumerate(train_loader): the next batch, or the
\* end of the pass.
TrainNextBatch ==
    /\ pc = "train_batch"
    /\ LET next == IF batch_idx = Unbound THEN 0 ELSE batch_idx + 1 IN
       IF next < train_len
       THEN /\ batch_idx' = next
            /\ \E l \in src.losses, nf \in src.nonfinite :
                  cur' = [rec |-> l[1], kld |-> l[2], nonfinite |-> nf]
            /\ pc' = "on_batch_begin"
       ELSE /\ pc' = "train_average"
            /\ UNCHANGED <<batch_idx, cur>>
    /\ UNCHANGED <<objVars, argVars, ci, start_epoch, epoch, train_loss,
                   valid_loss, logs, raised, cbs, disk, trace, calls>>

OnBatchBegin ==
    /\ Dispatch("on_batch_begin", epoch, batch_idx, "forward")
    /\ UNCHANGED <<objVars, argVars, localVars, calls>>

\* loss = self.lambda_rec * loss_rec + loss_kld
Loss(lam, c) == lam * c.rec + c.kld

\* What GlobalStep would be with epoch in place of epoch - 1.
GlobalStepFromEpoch(e, n, b) == e * n + b

\* logs["global_step"] = (epoch - 1) * len(train_loader) + batch_idx
GlobalStep(e, n, b) == (e - 1) * n + b

\* What ZeroGrad would be if the gradients were left as they are.
ZeroGradSkipped(g) == g

\* self.optimizer.zero_grad(): the stored gradients are cleared.
ZeroGrad(g) == {}

\* self.gscaler.scale(loss).backward(): the gradients of batch b of epoch e
\* are added to the stored ones.
Backward(g, e, b) == g \cup {<<e, b>>}

\* What RunningSum would be if a skipped step left the sum alone.
RunningSumIfStepped(sum, loss, steps) == IF steps THEN sum + loss ELSE sum

\* train_loss += loss.item(), whether or not the optimizer stepped.
RunningSum(sum, loss, steps) == sum + loss

\* forward, zero_grad, backward, scaler step and update, running sum, logs.
TrainStep ==
    /\ pc = "forward"
    /\ LET loss == Loss(lambda_rec, cur)
           steps == ScalerSteps(gscaler, cur.nonfinite) IN
       /\ enc' = IF steps THEN Stepped(enc) ELSE enc
       /\ dec' = IF steps THEN Stepped(dec) ELSE dec
       /\ opt' = IF steps THEN Stepped(opt) ELSE opt
       /\ grad' = Backward(ZeroGrad(grad), epoch, batch_idx)
       /\ gscaler' = ScalerUpdate(gscaler, cur.nonfinite)
       /\ train_loss' = RunningSum(train_loss, loss, steps)
       /\ logs' = IF callbacks # <<>>
                  THEN Put(Put(Put(Put(logs,
                           "train_loss", loss),
                           "train_loss_rec", cur.rec),
                           "train_loss_kld", cur.kld),
                           "global_step", GlobalStep(epoch, train_len, batch_idx))
                  ELSE logs
    /\ trace' = Append(trace, Ev("train_step", 0, epoch, batch_idx, Unbound))
    /\ pc' = "on_batch_end"
    /\ UNCHANGED <<training, lambda_rec, glueVars, argVars, ci, start_epoch, epoch,
                   batch_idx, valid_loss, cur, raised, cbs, disk, calls>>

OnBatchEnd ==
    /\ Dispatch("on_batch_end", epoch, batch_idx, "train_batch")
    /\ UNCHANGED <<objVars, argVars, localVars, calls>>

\* What TrainAverage would be if a pass over no batch had the average 0.
TrainAverageOfNothing ==
    /\ pc = "train_average"
    /\ pc' = "_validate"
    /\ logs' = IF callbacks # <<>>
               THEN Put(logs, "train_loss_average",
                        IF batch_idx = Unbound THEN <<0, 1>>
                        ELSE <<train_loss, batch_idx + 1>>)
               ELSE logs
    /\ UNCHANGED <<objVars, argVars, ci, localVars, raised, cbs, disk, trace,
                   calls>>

\* train_loss_ave = train_loss / float(batch_idx + 1): batch_idx is unbound
\* when the source yielded nothing.  The average is kept as <<sum, count>>.
TrainAverage ==
    /\ pc = "train_average"
    /\ IF batch_idx = Unbound
       THEN /\ pc' = "raised"
            /\ raised' = "UnboundLocalError"
            /\ UNCHANGED logs
       ELSE /\ pc' = "_validate"
            /\ logs' = IF callbacks # <<>>
                       THEN Put(logs, "train_loss_average",
                                <<train_loss, batch_idx + 1>>)
                       ELSE logs
            /\ UNCHANGED raised
    /\ UNCHANGED <<objVars, argVars, ci, localVars, cbs, disk, trace, calls>>

\* --------------------------------------------------------- VAE._validate
\* What ValidatePassBegin would be without self.model.eval().
ValidatePassBeginNoEval ==
    /\ pc = "_validate"
    /\ valid_loss' = 0
    /\ batch_idx' = Unbound
    /\ pc' = "on_validation_begin"
    /\ UNCHANGED <<objVars, argVars, ci, start_epoch, epoch, train_loss, cur,
                   logs, raised, cbs, disk, trace, calls>>

\* self.model.eval(); valid_loss = 0
ValidatePassBegin ==
    /\ pc = "_validate"
    /\ training' = FALSE
    /\ valid_loss' = 0
    /\ batch_idx' = Unbound
    /\ pc' = "on_validation_begin"
    /\ UNCHANGED <<enc, dec, opt, gscaler, lambda_rec, grad, glueVars, argVars, ci,
                   start_epoch, epoch, train_loss, cur, logs, raised, cbs,
                   disk, trace, calls>>

OnValidationBegin ==
    /\ Dispatch("on_validation_begin", epoch, Unbound, "valid_batch")
    /\ UNCHANGED <<objVars, argVars, localVars, calls>>

\* for batch_idx, token in enumerate(valid_loader)
ValidNextBatch ==
    /\ pc = "valid_batch"
    /\ LET next == IF batch_idx = Unbound THEN 0 ELSE batch_idx + 1 IN
       IF next < valid_len
       THEN /\ batch_idx' = next
            /\ \E l \in src.valid_losses :
                  cur' = [rec |-> l[1], kld |-> l[2], nonfinite |-> FALSE]
            /\ pc' = "valid_forward"
       ELSE /\ pc' = "valid_average"
            /\ UNCHANGED <<batch_idx, cur>>
    /\ UNCHANGED <<objVars, argVars, ci, start_epoch, epoch, train_loss,
                   valid_loss, logs, raised, cbs, disk, trace, calls>>

\* forward under no_grad; valid_loss += (lambda_rec * rec + kld).item()
ValidStep ==
    /\ pc = "valid_forward"
    /\ valid_loss' = valid_loss + Loss(lambda_rec, cur)
    /\ trace' = Append(trace, Ev("valid_step", 0, epoch, batch_idx, Unbound))
    /\ pc' = "on_validation_batch_end"
    /\ UNCHANGED <<objVars, argVars, ci, start_epoch, epoch, batch_idx,
                   train_loss, cur, logs, raised, cbs, disk, calls>>

OnValidationBatchEnd ==
    /\ Dispatch("on_validation_batch_end", epoch, batch_idx, "valid_batch")
    /\ UNCHANGED <<objVars, argVars, localVars, calls>>

\* What ValidAverage would be if logs["valid_loss"] were not written.
ValidAverageNotLogged ==
    /\ pc = "valid_average"
    /\ IF batch_idx = Unbound
       THEN /\ pc' = "raised"
            /\ raised' = "UnboundLocalError"
       ELSE /\ pc' = "on_validation_end"
            /\ UNCHANGED raised
    /\ UNCHANGED <<objVars, argVars, ci, localVars, logs, cbs, disk, trace,
                   calls>>

\* valid_loss /= float(batch_idx + 1); logs["valid_loss"] = valid_loss
ValidAverage ==
    /\ pc = "valid_average"
    /\ IF batch_idx = Unbound
       THEN /\ pc' = "raised"
            /\ raised' = "UnboundLocalError"
            /\ UNCHANGED logs
       ELSE /\ pc' = "on_validation_end"
            /\ logs' = IF callbacks # <<>>
                       THEN Put(logs, "valid_loss", <<valid_loss, batch_idx + 1>>)
                       ELSE logs
            /\ UNCHANGED raised
    /\ UNCHANGED <<objVars, argVars, ci, localVars, cbs, disk, trace, calls>>

OnValidationEnd ==
    /\ Dispatch("on_validation_end", epoch, Unbound, "on_epoch_end")
    /\ UNCHANGED <<objVars, argVars, localVars, calls>>

\* ------------------------------------------------------------ the caller
\* The checkpoint a caller resumes from: none, or the latest file of the
\* directory.
ResumeChoices(dk) ==
    {NoCheckpoint} \cup (IF dk = <<>> THEN {} ELSE {Path(dk[Len(dk)])})

\* train() is called again on the same VAE object, with the same sources and
\* callbacks.
CallAgain ==
    /\ pc = "done"
    /\ Len(calls) < MaxCalls
    /\ checkpoint' \in ResumeChoices(disk)
    /\ epochs' \in {epochs, MaxEpochs}
    /\ pc' = "idle"
    /\ UNCHANGED <<objVars, train_len, valid_len, callbacks, src, ci,
                   localVars, logs, raised, cbs, disk, trace, calls>>

\* -------------------------------------------------------------- the runs
InitWeights == W("init", 0)

FileWeights == W("file", 0)

\* A checkpoint file written by an earlier process at epoch ep.
GivenFile(ep) == CkptFile(FileWeights, FileWeights, FileWeights, ep)

CallbackLists ==
    {<<>>, <<"loss">>, <<"writer", "reader">>, <<"ckpt", "loss">>}

Run(tl, vl, ep, cp, cbl, amp, ls, nfs) ==
    [train_len |-> tl, valid_len |-> vl, epochs |-> ep, checkpoint |-> cp,
     callbacks |-> cbl, enable_amp |-> amp, losses |-> ls, nonfinite |-> nfs,
     valid_losses |-> ls, raise_at |-> ""]

\* Full-precision runs, from scratch or from a complete checkpoint file.
ProtocolRuns ==
    {Run(tl, vl, ep, cp, cbl, FALSE, {<<1, 0>>}, {FALSE}) :
        tl \in {1, MaxBatches}, vl \in {1, MaxBatches}, ep \in 0..MaxEpochs,
        cp \in {NoCheckpoint, Path(GivenFile(1))}, cbl \in CallbackLists}

\* Mixed-precision runs whose batches may give non-finite gradients.
AmpRuns ==
    {Run(MaxBatches, 1, 1, NoCheckpoint, <<"loss">>, TRUE, {<<2, 1>>}, BOOLEAN),
     Run(1, 1, 1, NoCheckpoint, <<"ckpt">>, TRUE, {<<2, 1>>}, {TRUE}),
     Run(1, 1, 2, Path(GivenFile(1)), <<>>, TRUE, {<<2, 1>>}, BOOLEAN)}

\* Runs given the empty string as checkpoint, and runs over a source that
\* yields nothing.
EdgeRuns ==
    {Run(tl, vl, 1, cp, cbl, FALSE, {<<1, 0>>}, {FALSE}) :
        tl \in 0..1, vl \in 0..1, cp \in {NoCheckpoint, EmptyPath},
        cbl \in {<<>>, <<"loss">>}}

\* Runs given a checkpoint file that lacks some of its keys.
CorruptRuns ==
    {Run(1, 1, MaxEpochs, Path(Without(GivenFile(1), missing)), cbl, FALSE,
         {<<1, 0>>}, {FALSE}) :
        missing \in SUBSET CkptKeys \ {{}}, cbl \in {<<>>, <<"loss">>}}

\* Two epochs over 10 training and 4 validation batches, with the loss
\* callback.
EndToEndRun ==
    Run(10, 4, 2, NoCheckpoint, <<"loss">>, FALSE, {<<1, 0>>}, {FALSE})

\* Mixed precision over a source whose every batch gives non-finite
\* gradients.
UnstableRun ==
    Run(1, 1, LongEpochs, NoCheckpoint, <<>>, TRUE, {<<1, 0>>}, {TRUE})

\* Runs whose validation batches differ in their loss.
VaryingRuns ==
    {[Run(1, 2, 2, NoCheckpoint, <<"loss">>, FALSE, {<<1, 0>>}, {FALSE})
         EXCEPT !.valid_losses = {<<1, 0>>, <<2, 1>>}]}

Hooks ==
    {"on_train_begin", "on_epoch_begin", "on_batch_begin", "on_batch_end",
     "on_validation_begin", "on_validation_batch_end", "on_validation_end",
     "on_epoch_end", "on_train_end"}

\* Runs with a callback that raises in one of its hooks, between two
\* callbacks that do not.
RaisingRuns ==
    {[Run(tl, 1, 2, NoCheckpoint, <<"loss", "raiser", "reader">>, FALSE,
          {<<1, 0>>}, {FALSE}) EXCEPT !.raise_at = h] :
        tl \in {1, MaxBatches}, h \in Hooks}

Runs ==
    ProtocolRuns \cup AmpRuns \cup EdgeRuns \cup CorruptRuns
        \cup {EndToEndRun, UnstableRun} \cup VaryingRuns \cup RaisingRuns

\* No run of the code around the controller.
NoCtor == [pc |-> "none"]

NoMain == [pc |-> "none"]

NoHp == [pc |-> "none"]

NoShard == [pc |-> "none"]

NoTune == [pc |-> "none"]

NoEmb == [pc |-> "none"]

NoDataset == [pc |-> "none"]

\* None of the four small units runs.
UnitsIdle ==
    /\ shard = NoShard
    /\ tune = NoTune
    /\ emb = NoEmb
    /\ dataset = NoDataset

\* The VAE object as constructed for run r, no train() call made yet.
Constructed(r) ==
        /\ enc = InitWeights
        /\ dec = InitWeights
        /\ opt = InitWeights
        /\ training = TRUE
        /\ gscaler = NewScaler(r.enable_amp)
        /\ lambda_rec = 1
        /\ grad = {}
        /\ train_len = r.train_len
        /\ valid_len = r.valid_len
        /\ epochs = r.epochs
        /\ checkpoint = r.checkpoint
        /\ callbacks = r.callbacks
        /\ src = [losses |-> r.losses, nonfinite |-> r.nonfinite,
                  valid_losses |-> r.valid_losses, raise_at |-> r.raise_at]
        /\ pc = "idle"
        /\ ci = 1
        /\ start_epoch = 1
        /\ epoch = Unbound
        /\ batch_idx = Unbound
        /\ train_loss = 0
        /\ valid_loss = 0
        /\ cur = [rec |-> 0, kld |-> 0, nonfinite |-> FALSE]
        /\ logs = EmptyDict
        /\ raised = ""
        /\ cbs = NewCallbacks
        /\ disk = <<>>
        /\ trace = <<>>
        /\ calls = <<>>

Init ==
    \E r \in Runs :
        /\ Constructed(r)
        /\ ctor = NoCtor
        /\ main = NoMain
        /\ hp = NoHp
        /\ UnitsIdle

Next ==
    \/ TrainCall
    \/ OnTrainBegin
    \/ EpochLoop
    \/ OnEpochBegin
    \/ TrainPassBegin
    \/ TrainNextBatch
    \/ OnBatchBegin
    \/ TrainStep
    \/ OnBatchEnd
    \/ TrainAverage
    \/ ValidatePassBegin
    \/ OnValidationBegin
    \/ ValidNextBatch
    \/ ValidStep
    \/ OnValidationBatchEnd
    \/ ValidAverage
    \/ OnValidationEnd
    \/ OnEpochEnd
    \/ OnTrainEnd
    \/ CallAgain

Spec == Init /\ [][Next]_vars

\* The state of the controller, which the code around it leaves alone while
\* no train() call runs.
ctlVars ==
    <<enc, dec, opt, training, gscaler, lambda_rec, grad, argVars, localVars,
      pc, ci, logs, raised, cbs, disk, trace, calls>>

\* ------------------------------------------- example_vae.main: the resume
\* File names are sequences of characters.
Digits == {"0", "1", "2", "9"}

IsDigit(c) == c \in Digits

\* The order of the characters a checkpoint's timestamp is made of:
\* "-" < "0" < "1" < "2" < "9", as their code points.
Ord(c) ==
    CASE c = "-" -> 45
      [] c = "0" -> 48
      [] c = "1" -> 49
      [] c = "2" -> 50
      [] c = "9" -> 57
      [] OTHER -> 0

\* a < b for python strings: at the first difference, or a proper prefix.
StrLess(a, b) ==
    \E i \in 1..(Len(b)) :
        /\ \A j \in 1..(i - 1) : j <= Len(a) /\ a[j] = b[j]
        /\ i > Len(a) \/ Ord(a[i]) < Ord(b[i])

\* x.endswith(".pt")
EndsWithPt(x) ==
    Len(x) >= 3 /\ SubSeq(x, Len(x) - 2, Len(x)) = <<".", "p", "t">>

\* The length of the run of digits of x that starts at position i.
DigitRun(x, i) ==
    CHOOSE n \in 0..(Len(x) + 1 - i) :
        /\ \A j \in i..(i + n - 1) : IsDigit(x[j])
        /\ i + n > Len(x) \/ ~IsDigit(x[i + n])

\* re.match("epoch-\d*?-(\d*?-\d*?).pt", x): None, or the match with its
\* group.  The match starts at the start of x and need not reach its end;
\* the "." before "pt" stands for any character.
ReMatch(x) ==
    LET none == [matched |-> FALSE, group |-> <<>>]
        p1 == 7
        n1 == DigitRun(x, p1)
        p2 == p1 + n1 + 1
        n2 == DigitRun(x, p2)
        p3 == p2 + n2 + 1
        ends == {n \in 0..DigitRun(x, p3) :
                    /\ p3 + n + 2 <= Len(x)
                    /\ x[p3 + n + 1] = "p"
                    /\ x[p3 + n + 2] = "t"}
    IN IF Len(x) < 6 \/ SubSeq(x, 1, 6) # <<"e", "p", "o", "c", "h", "-">>
       THEN none
       ELSE IF p2 - 1 > Len(x) \/ x[p2 - 1] # "-" THEN none
       ELSE IF p3 - 1 > Len(x) \/ x[p3 - 1] # "-" THEN none
       ELSE IF ends = {} THEN none
       ELSE LET n3 == CHOOSE n \in ends : \A m \in ends : n <= m
            IN [matched |-> TRUE, group |-> SubSeq(x, p2, p3 + n3 - 1)]

\* [x for x in listing if x.endswith(".pt")]
PtFiles(listing) == SelectSeq(listing, EndsWithPt)

\* One step of a stable sort: x goes behind every element whose key is not
\* greater than its own.
InsertByKey(sorted, x) ==
    LET k == ReMatch(x).group
        at == CHOOSE i \in 0..Len(sorted) :
                  /\ \A j \in 1..i : ~StrLess(k, ReMatch(sorted[j]).group)
                  /\ \A j \in (i + 1)..Len(sorted) :
                        StrLess(k, ReMatch(sorted[j]).group)
    IN SubSeq(sorted, 1, at) \o <<x>> \o SubSeq(sorted, at + 1, Len(sorted))

RECURSIVE SortedByKey(_)
\* sorted(clist, key=lambda x: re.match(...).groups()[0]), for a clist whose
\* every name matches.
SortedByKey(clist) ==
    IF clist = <<>> THEN <<>>
    ELSE InsertByKey(SortedByKey(SubSeq(clist, 1, Len(clist) - 1)),
                     clist[Len(clist)])

\* The --checkpoint option: None, or the path given.
NoneArg == <<>>

\* main, from "if resume and (checkpoint is None)" to the sort: list the
\* directory, keep the .pt files and sort them by the group of their match.
\* re.match gives None for a name that does not match, and None.groups()
\* raises AttributeError.
MainDiscover ==
    /\ main.pc = "resume"
    /\ IF main.resume /\ main.checkpoint = NoneArg
       THEN LET clist == PtFiles(main.listing) IN
            IF \A i \in 1..Len(clist) : ReMatch(clist[i]).matched
            THEN main' = [main EXCEPT !.pc = "pick",
                                      !.checkpoints = SortedByKey(clist)]
            ELSE main' = [main EXCEPT !.pc = "raised",
                                      !.raised = "AttributeError"]
       ELSE main' = [main EXCEPT !.pc = "train"]
    /\ UNCHANGED <<ctlVars, ctor, hp, unitVars>>

\* if checkpoints: checkpoint = checkpoints[-1], print "Resuming ..."; else
\* print "No checkpoint files ... will start from scratch."
MainPick ==
    /\ main.pc = "pick"
    /\ IF main.checkpoints # <<>>
       THEN main' = [main EXCEPT
                        !.pc = "train",
                        !.checkpoint = main.checkpoints[Len(main.checkpoints)],
                        !.printed = "Resuming from checkpoint"]
       ELSE main' = [main EXCEPT !.pc = "train",
                                 !.printed = "No checkpoint files"]
    /\ UNCHANGED <<ctlVars, ctor, hp, unitVars>>

\* vae.train(train_loader, valid_loader, epochs, checkpoint=checkpoint, ...)
MainTrain ==
    /\ main.pc = "train"
    /\ main' = [main EXCEPT !.pc = "training", !.passed = main.checkpoint]
    /\ UNCHANGED <<ctlVars, ctor, hp, unitVars>>

\* Names a checkpoint directory may hold.
Epoch1At2011 ==
    <<"e", "p", "o", "c", "h", "-", "1", "-", "2", "0", "-", "1", "1", ".", "p", "t">>

Epoch2At2012 ==
    <<"e", "p", "o", "c", "h", "-", "2", "-", "2", "0", "-", "1", "2", ".", "p", "t">>

Epoch9At2012 ==
    <<"e", "p", "o", "c", "h", "-", "9", "-", "2", "0", "-", "1", "2", ".", "p", "t">>

Epoch10At209 ==
    <<"e", "p", "o", "c", "h", "-", "1", "0", "-", "2", "0", "-", "9", ".", "p", "t">>

BestPt == <<"b", "e", "s", "t", ".", "p", "t">>

Epoch1At2012NoDash ==
    <<"e", "p", "o", "c", "h", "-", "1", "-", "2", "0", "1", "2", ".", "p", "t">>

LossJson == <<"l", "o", "s", "s", ".", "j", "s", "o", "n">>

FileNames ==
    {Epoch1At2011, Epoch2At2012, Epoch9At2012, Epoch10At209, BestPt,
     Epoch1At2012NoDash, LossJson}

\* Most files a checkpoint directory holds.
MaxFiles == 3

\* os.listdir gives the names in arbitrary order, each once.
Listings ==
    UNION {{l \in [1..n -> FileNames] : \A i, j \in 1..n : i # j => l[i] # l[j]} :
               n \in 0..MaxFiles}

MainInit ==
    /\ \E r \in {EndToEndRun} : Constructed(r)
    /\ ctor = NoCtor
    /\ hp = NoHp
    /\ UnitsIdle
    /\ \E l \in Listings, rs \in BOOLEAN, cp \in {NoneArg, Epoch1At2011} :
          main = [pc |-> "resume", resume |-> rs, given |-> cp,
                  checkpoint |-> cp, listing |-> l, checkpoints |-> <<>>, printed |-> "",
                  raised |-> "", passed |-> NoneArg]

MainNext ==
    \/ MainDiscover
    \/ MainPick
    \/ MainTrain

MainSpec == MainInit /\ [][MainNext]_vars

\* ------------------------------------------------------------ VAE.__init__
\* None as an element of a gpu tuple or as the index of a device.
Absent == -1

\* Largest accelerator id of a request.
MaxGpuId == 2

\* The gpu argument: None, an int, a tuple of ints and Nones, or a str.
GpuNone == [type |-> "NoneType", val |-> <<>>]

GpuInt(i) == [type |-> "int", val |-> <<i>>]

GpuTuple(t) == [type |-> "tuple", val |-> t]

GpuStr(i) == [type |-> "str", val |-> <<i>>]

\* torch.device("cpu"), torch.device("cuda"), torch.device(f"cuda:{i}")
Cpu == [type |-> "cpu", index |-> Absent]

Cuda(i) == [type |-> "cuda", index |-> i]

\* What ConfigureDevice would be if only a bare None took the default.
ConfigureDeviceBareNone(gpu, cuda) ==
    IF gpu.type = "NoneType"
    THEN LET device == IF cuda THEN Cuda(Absent) ELSE Cpu
         IN [raised |-> "", encoder |-> device, decoder |-> device]
    ELSE IF ~cuda THEN [raised |-> "ValueError", encoder |-> Cpu, decoder |-> Cpu]
    ELSE IF gpu.type = "int"
    THEN [raised |-> "", encoder |-> Cuda(gpu.val[1]), decoder |-> Cuda(gpu.val[1])]
    ELSE IF gpu.type = "tuple" /\ Len(gpu.val) = 2
    THEN [raised |-> "", encoder |-> Cuda(gpu.val[1]), decoder |-> Cuda(gpu.val[2])]
    ELSE [raised |-> "ValueError", encoder |-> Cpu, decoder |-> Cpu]

\* What ConfigureDevice would be if a missing accelerator meant the CPU for
\* every request.
ConfigureDeviceCpuFallback(gpu, cuda) ==
    IF gpu.type = "NoneType"
          \/ (gpu.type = "tuple" /\ \E i \in DOMAIN gpu.val : gpu.val[i] = Absent)
          \/ ~cuda
    THEN LET device == IF cuda THEN Cuda(Absent) ELSE Cpu
         IN [raised |-> "", encoder |-> device, decoder |-> device]
    ELSE IF gpu.type = "int"
    THEN [raised |-> "", encoder |-> Cuda(gpu.val[1]), decoder |-> Cuda(gpu.val[1])]
    ELSE IF gpu.type = "tuple" /\ Len(gpu.val) = 2
    THEN [raised |-> "", encoder |-> Cuda(gpu.val[1]), decoder |-> Cuda(gpu.val[2])]
    ELSE [raised |-> "ValueError", encoder |-> Cpu, decoder |-> Cpu]

\* VAE._configure_device(gpu), with cuda = torch.cuda.is_available(): the
\* (encoder, decoder) devices, or the ValueError raised.
ConfigureDevice(gpu, cuda) ==
    IF gpu.type = "NoneType"
          \/ (gpu.type = "tuple" /\ \E i \in DOMAIN gpu.val : gpu.val[i] = Absent)
    THEN LET device == IF cuda THEN Cuda(Absent) ELSE Cpu
         IN [raised |-> "", encoder |-> device, decoder |-> device]
    ELSE IF ~cuda THEN [raised |-> "ValueError", encoder |-> Cpu, decoder |-> Cpu]
    ELSE IF gpu.type = "int"
    THEN [raised |-> "", encoder |-> Cuda(gpu.val[1]), decoder |-> Cuda(gpu.val[1])]
    ELSE IF gpu.type = "tuple" /\ Len(gpu.val) = 2
    THEN [raised |-> "", encoder |-> Cuda(gpu.val[1]), decoder |-> Cuda(gpu.val[2])]
    ELSE [raised |-> "ValueError", encoder |-> Cpu, decoder |-> Cpu]

ctorOther == <<ctlVars, main, hp, unitVars>>

\* One statement of __init__ that cannot fail: the field is set and control
\* moves on.
CtorSet(at, field, next) ==
    /\ ctor.pc = at
    /\ ctor' = [ctor EXCEPT !.pc = next, !.created = @ \cup {field}]
    /\ UNCHANGED ctorOther

\* What CtorFail would be if the exception were swallowed.
CtorFailIgnored(c, error, next) == [c EXCEPT !.pc = next]

\* A statement of __init__ raises: the exception leaves the constructor.
CtorFail(c, error, next) == [c EXCEPT !.pc = "raised", !.raised = error]

\* hparams.validate()
CtorValidateHparams ==
    /\ ctor.pc = "hparams.validate"
    /\ ctor' = IF ctor.hparams.valid
               THEN [ctor EXCEPT !.pc = "optimizer_hparams.validate"]
               ELSE CtorFail(ctor, "hparams.validate",
                             "optimizer_hparams.validate")
    /\ UNCHANGED ctorOther

\* optimizer_hparams.validate()
CtorValidateOptimizerHparams ==
    /\ ctor.pc = "optimizer_hparams.validate"
    /\ ctor' = IF ctor.optimizer_hparams.valid
               THEN [ctor EXCEPT !.pc = "device"]
               ELSE CtorFail(ctor, "optimizer_hparams.validate", "device")
    /\ UNCHANGED ctorOther

\* self.device = Device(*self._configure_device(gpu))
CtorDevice ==
    /\ ctor.pc = "device"
    /\ LET r == ConfigureDevice(ctor.gpu, ctor.cuda) IN
       ctor' = IF r.raised # ""
               THEN CtorFail(ctor, r.raised, "model")
               ELSE [ctor EXCEPT !.pc = "model",
                                 !.created = @ \cup {"device"},
                                 !.device = <<r.encoder, r.decoder>>]
    /\ UNCHANGED ctorOther

\* self.model = VAEModel(input_shape, hparams, init_weights, self.device):
\* TypeError for hparams that are neither symmetric nor resnet.
CtorModel ==
    /\ ctor.pc = "model"
    /\ ctor' = IF ctor.hparams.type \in {"SymmetricVAEHyperparams",
                                         "ResnetVAEHyperparams"}
               THEN [ctor EXCEPT !.pc = "optimizer",
                                 !.created = @ \cup {"model"}]
               ELSE CtorFail(ctor, "TypeError", "optimizer")
    /\ UNCHANGED ctorOther

\* self.optimizer = get_optimizer(self.model.parameters(), optimizer_hparams)
CtorOptimizer == CtorSet("optimizer", "optimizer", "gscaler")

\* self.gscaler = amp.GradScaler(enabled=self.enable_amp)
CtorScaler == CtorSet("gscaler", "gscaler", "lambda_rec")

\* self.loss_fnc, self.lambda_rec, self.comm_rank, self.comm_size
CtorRest == CtorSet("lambda_rec", "lambda_rec", "constructed")

\* The gpu arguments tried.
GpuRequests ==
    {GpuNone} \cup {GpuInt(i) : i \in 0..MaxGpuId}
        \cup {GpuStr(i) : i \in 0..MaxGpuId}
        \cup {GpuTuple(t) : t \in UNION {[1..n -> {Absent} \cup 0..MaxGpuId] :
                                             n \in 1..3}}

HparamsTypes ==
    {"SymmetricVAEHyperparams", "ResnetVAEHyperparams", "AAE3dHyperparams"}

CtorInit ==
    /\ \E r \in {EndToEndRun} : Constructed(r)
    /\ main = NoMain
    /\ hp = NoHp
    /\ UnitsIdle
    /\ \E g \in GpuRequests, c \in BOOLEAN, t \in HparamsTypes,
          v \in BOOLEAN, ov \in BOOLEAN :
          ctor = [pc |-> "hparams.validate",
                  hparams |-> [type |-> t, valid |-> v],
                  optimizer_hparams |-> [valid |-> ov],
                  gpu |-> g, cuda |-> c,
                  created |-> {}, device |-> <<Cpu, Cpu>>, raised |-> ""]

CtorNext ==
    \/ CtorValidateHparams
    \/ CtorValidateOptimizerHparams
    \/ CtorDevice
    \/ CtorModel
    \/ CtorOptimizer
    \/ CtorScaler
    \/ CtorRest

CtorSpec == CtorInit /\ [][CtorNext]_vars

\* ------------------------------------------- the hyperparameter record
\* The fields of EncoderHyperparams that the tests set: ints and lists of
\* ints.
IntFields == {"num_conv_layers", "num_affine_layers", "latent_dim"}

ListFields ==
    {"filters", "kernels", "strides", "affine_widths", "affine_dropouts"}

\* The order of the fields in the record's __dict__.
FieldOrder ==
    <<"num_conv_layers", "filters", "kernels", "strides", "num_affine_layers",
      "affine_widths", "latent_dim", "affine_dropouts">>

\* What Validate would be if only the convolution fields were compared.
ValidateConvOnly(f) ==
    /\ f["num_conv_layers"] = Len(f["filters"])
    /\ f["num_conv_layers"] = Len(f["kernels"])
    /\ f["num_conv_layers"] = Len(f["strides"])

\* validate(): TRUE when it returns, FALSE when it raises.  The fields that
\* depend on each other must agree: one entry of filters, kernels and
\* strides per convolution layer, one entry of affine_widths and
\* affine_dropouts per affine layer.
Validate(f) ==
    /\ f["num_conv_layers"] = Len(f["filters"])
    /\ f["num_conv_layers"] = Len(f["kernels"])
    /\ f["num_conv_layers"] = Len(f["strides"])
    /\ f["num_affine_layers"] = Len(f["affine_widths"])
    /\ f["num_affine_layers"] = Len(f["affine_dropouts"])

\* The tokens of the file a record is saved to.
Punct(c) == [t |-> "punct", s |-> c, n |-> 0]

Key(k) == [t |-> "string", s |-> k, n |-> 0]

Num(i) == [t |-> "number", s |-> "", n |-> i]

RECURSIVE EncodeItems(_)
\* The items of a list, separated by commas.
EncodeItems(l) ==
    IF l = <<>> THEN <<>>
    ELSE IF Len(l) = 1 THEN <<Num(l[1])>>
    ELSE <<Num(l[1]), Punct(",")>> \o EncodeItems(Tail(l))

\* One field: its name, a colon, and its value as a number or as a list.
EncodeField(f, k) ==
    <<Key(k), Punct(":")>> \o
        (IF k \in IntFields THEN <<Num(f[k])>>
         ELSE <<Punct("[")>> \o EncodeItems(f[k]) \o <<Punct("]")>>)

RECURSIVE EncodeFields(_, _)
EncodeFields(f, keys) ==
    IF keys = <<>> THEN <<>>
    ELSE IF Len(keys) = 1 THEN EncodeField(f, keys[1])
    ELSE EncodeField(f, keys[1]) \o <<Punct(",")>> \o EncodeFields(f, Tail(keys))

\* save(path): the record's fields written as one object.
Encode(f) == <<Punct("{")>> \o EncodeFields(f, FieldOrder) \o <<Punct("}")>>

RECURSIVE ParseItemsDropLast(_, _, _)
\* What ParseItems would be if the item before "]" were lost.
ParseItemsDropLast(toks, i, acc) ==
    IF toks[i] = Punct("]") THEN [val |-> acc, next |-> i + 1]
    ELSE IF toks[i] = Punct(",") THEN ParseItemsDropLast(toks, i + 1, acc)
    ELSE IF toks[i + 1] = Punct("]") THEN [val |-> acc, next |-> i + 2]
    ELSE ParseItemsDropLast(toks, i + 1, Append(acc, toks[i].n))

RECURSIVE ParseItems(_, _, _)
\* The numbers from position i up to the closing bracket, and the position
\* behind it.
ParseItems(toks, i, acc) ==
    IF toks[i] = Punct("]") THEN [val |-> acc, next |-> i + 1]
    ELSE IF toks[i] = Punct(",") THEN ParseItems(toks, i + 1, acc)
    ELSE ParseItems(toks, i + 1, Append(acc, toks[i].n))

RECURSIVE ParseMembers(_, _, _)
\* The members of the object from position i on, as a dict.
ParseMembers(toks, i, acc) ==
    IF toks[i] = Punct("}") THEN acc
    ELSE IF toks[i] = Punct(",") THEN ParseMembers(toks, i + 1, acc)
    ELSE LET v == IF toks[i + 2].t = "number"
                  THEN [val |-> toks[i + 2].n, next |-> i + 3]
                  ELSE ParseItems(toks, i + 3, <<>>)
         IN ParseMembers(toks, v.next, Put(acc, toks[i].s, v.val))

\* load(path), up to the constructor call: the file read back as the
\* keyword arguments.
Decode(toks) == ParseMembers(toks, 2, EmptyDict)

hpOther == <<ctlVars, ctor, main, unitVars>>

\* What HpConstruct would be if the constructor did not validate.
HpConstructUnchecked ==
    /\ hp.pc = "construct"
    /\ hp' = [hp EXCEPT !.pc = "constructed", !.fields = hp.kwargs]
    /\ UNCHANGED hpOther

\* EncoderHyperparams(**kwargs): the fields are set and validated.
HpConstruct ==
    /\ hp.pc = "construct"
    /\ hp' = IF Validate(hp.kwargs)
             THEN [hp EXCEPT !.pc = "constructed", !.fields = hp.kwargs]
             ELSE [hp EXCEPT !.pc = "raised", !.raised = "constructor"]
    /\ UNCHANGED hpOther

\* Largest num_conv_layers and longest list of a record.
MaxLayers == 2

\* encoder_hparams.num_conv_layers = 2: a field is assigned after the
\* construction; nothing is validated.
HpMutate ==
    /\ hp.pc = "constructed"
    /\ ~hp.mutated
    /\ \E v \in 0..MaxLayers :
          hp' = [hp EXCEPT !.fields["num_conv_layers"] = v, !.mutated = TRUE]
    /\ UNCHANGED hpOther

\* encoder_hparams.validate()
HpValidate ==
    /\ hp.pc = "constructed"
    /\ hp' = IF Validate(hp.fields)
             THEN [hp EXCEPT !.pc = "validated"]
             ELSE [hp EXCEPT !.pc = "raised", !.raised = "validate"]
    /\ UNCHANGED hpOther

\* encoder_hparams.save(fname)
HpSave ==
    /\ hp.pc = "constructed"
    /\ hp' = [hp EXCEPT !.pc = "saved", !.file = Encode(hp.fields)]
    /\ UNCHANGED hpOther

\* EncoderHyperparams.load(fname): the file is read and a record is
\* constructed from it, which validates it.
HpLoad ==
    /\ hp.pc = "saved"
    /\ LET kwargs == Decode(hp.file) IN
       hp' = IF Validate(kwargs)
             THEN [hp EXCEPT !.pc = "loaded", !.loaded = kwargs]
             ELSE [hp EXCEPT !.pc = "raised", !.raised = "load"]
    /\ UNCHANGED hpOther

\* The lists over vals with at most MaxLayers entries.
Lists(vals) == UNION {[1..n -> vals] : n \in 0..MaxLayers}

\* The keyword arguments tried: those of the tests and their neighbours.
HpKwargs ==
    {[k \in IntFields \cup ListFields |->
        CASE k = "num_conv_layers" -> nc
          [] k = "filters" -> fi
          [] k = "kernels" -> ke
          [] k = "strides" -> st
          [] k = "num_affine_layers" -> na
          [] k = "affine_widths" -> aw
          [] k = "affine_dropouts" -> ad
          [] OTHER -> 3] :
        nc \in 0..MaxLayers, fi \in Lists({64}), ke \in Lists({3}),
        st \in Lists({1, 2}), na \in 0..1,
        aw \in {<<>>, <<128>>}, ad \in {<<>>, <<0>>}}

HpInit ==
    /\ \E r \in {EndToEndRun} : Constructed(r)
    /\ ctor = NoCtor
    /\ main = NoMain
    /\ UnitsIdle
    /\ \E kw \in HpKwargs :
          hp = [pc |-> "construct", kwargs |-> kw, fields |-> kw,
                mutated |-> FALSE, raised |-> "", file |-> <<>>,
                loaded |-> kw]

HpNext ==
    \/ HpConstruct
    \/ HpMutate
    \/ HpValidate
    \/ HpSave
    \/ HpLoad

HpSpec == HpInit /\ [][HpNext]_vars

\* ------------------------------------------------------- the small units
\* Everything but the four small units is as constructed and idle.
OthersIdle ==
    /\ \E r \in {EndToEndRun} : Constructed(r)
    /\ ctor = NoCtor
    /\ main = NoMain
    /\ hp = NoHp

\* list(range(a, b))
Range(a, b) == [i \in 1..(IF b > a THEN b - a ELSE 0) |-> a + i - 1]

\* The elements of a list.
Elems(l) == {l[i] : i \in DOMAIN l}

\* --------------------------------- example_vae.main: the split across ranks
\* Largest number of rows of a dataset.
MaxRows == 5
\* Largest number of processes.
MaxRanks == 3

\* What ShardIndices would be with the chunk size rounded up.
ShardIndicesRoundedUp(n, comm_size, comm_rank) ==
    IF comm_size > 1
    THEN LET chunksize == (n + comm_size - 1) \div comm_size
         IN Range(chunksize * comm_rank, chunksize * (comm_rank + 1))
    ELSE Range(0, n)

\* The indices of the dataset of n rows a process keeps:
\*   if comm_size > 1:
\*       chunksize = len(dataset) // comm_size
\*       dataset = Subset(dataset, list(range(chunksize * comm_rank,
\*                                            chunksize * (comm_rank + 1))))
ShardIndices(n, comm_size, comm_rank) ==
    IF comm_size > 1
    THEN LET chunksize == n \div comm_size
         IN Range(chunksize * comm_rank, chunksize * (comm_rank + 1))
    ELSE Range(0, n)

shardOther == <<ctlVars, ctor, main, hp, tune, emb, dataset>>

\* The process of rank r splits its train dataset.
ShardTrain(r) ==
    /\ shard.pc = "split"
    /\ shard.at[r] = "train"
    /\ shard' = [shard EXCEPT
                    !.train[r] = ShardIndices(shard.train_n, shard.comm_size, r),
                    !.at[r] = "valid"]
    /\ UNCHANGED shardOther

\* The process of rank r splits its validation dataset.
ShardValid(r) ==
    /\ shard.pc = "split"
    /\ shard.at[r] = "valid"
    /\ shard' = [shard EXCEPT
                    !.valid[r] = ShardIndices(shard.valid_n, shard.comm_size, r),
                    !.at[r] = "done"]
    /\ UNCHANGED shardOther

\* comm_size processes, each holding the whole train and validation
\* datasets and about to split them.
ShardInit ==
    /\ OthersIdle
    /\ tune = NoTune
    /\ emb = NoEmb
    /\ dataset = NoDataset
    /\ \E tn \in 0..MaxRows, vn \in 0..MaxRows, cs \in 1..MaxRanks :
          shard = [pc |-> "split", train_n |-> tn, valid_n |-> vn,
                   comm_size |-> cs,
                   at |-> [r \in 0..(cs - 1) |-> "train"],
                   train |-> [r \in 0..(cs - 1) |-> Range(0, tn)],
                   valid |-> [r \in 0..(cs - 1) |-> Range(0, vn)]]

ShardNext ==
    \/ \E r \in DOMAIN shard.at : ShardTrain(r)
    \/ \E r \in DOMAIN shard.at : ShardValid(r)

ShardSpec == ShardInit /\ [][ShardNext]_vars

\* ------------------------------------------- hpo_aae.main: the two configs
\* Values of a config: a hyperopt search space (hp.choice, hp.loguniform),
\* a number n, the float 10^n, or a reference to a dict of the heap.
Space(n) == [kind |-> "space", n |-> n]

Number(n) == [kind |-> "number", n |-> n]

PowerOfTen(n) == [kind |-> "1e", n |-> n]

Ref(n) == [kind |-> "dict", n |-> n]

\* The addresses of the dicts main builds.
TuneConfigAt == 1
OptimizerAt == 2
TuneConfigGoodAt == 3
OptimizerCopyAt == 4

\* tune_config as the dict display at 108-141 builds it, with the nested
\* "optimizer" dict a dict of its own.
TuneConfig(epochs_arg, local_rank, distributed) ==
    Put(Put(EmptyDict,
        OptimizerAt,
            [name |-> Number(0), lr |-> Space(2)]),
        TuneConfigAt,
            [epochs |-> Number(epochs_arg),
             batch_size |-> Space(1),
             optimizer |-> Ref(OptimizerAt),
             latent_dim |-> Space(3),
             encoder_kernel_sizes |-> Space(4),
             noise_std |-> Space(5),
             distributed |-> Number(IF distributed THEN 1 ELSE 0),
             local_rank |-> Number(local_rank)])

\* What DictCopy would be if it copied the nested dicts too.
DictCopyDeep(heap, from, to) ==
    Put(Put(heap,
        OptimizerCopyAt, heap[heap[from].optimizer.n]),
        to, [heap[from] EXCEPT !.optimizer = Ref(OptimizerCopyAt)])

\* dict.copy(): a new dict with the same values under the same keys, a
\* nested dict being the same object in both.
DictCopy(heap, from, to) == Put(heap, to, heap[from])

\* The assignments to tune_config_good, in order, as <<path, value>>.
GoodPoint ==
    <<[path |-> <<"batch_size">>, value |-> Number(3)],
      [path |-> <<"optimizer", "lr">>, value |-> PowerOfTen(-4)],
      [path |-> <<"latent_dim">>, value |-> Number(2)],
      [path |-> <<"encoder_kernel_sizes">>, value |-> Number(2)],
      [path |-> <<"noise_std">>, value |-> Number(0)]>>

\* d[k] = v on the dict at an address, k one of its keys.
SetKey(d, k, v) ==
    [x \in DOMAIN d |-> IF x = k THEN v ELSE d[x]]

\* d[path[1]]...[path[n]] = v, starting at the dict at address `at`.
SetItem(heap, at, path, v) ==
    IF Len(path) = 1
    THEN [heap EXCEPT ![at] = SetKey(@, path[1], v)]
    ELSE LET inner == heap[at][path[1]].n
         IN [heap EXCEPT ![inner] = SetKey(@, path[2], v)]

tuneOther == <<ctlVars, ctor, main, hp, shard, emb, dataset>>

\* tune_config_good = tune_config.copy()
TuneCopy ==
    /\ tune.pc = "copy"
    /\ tune' = [tune EXCEPT
                   !.heap = DictCopy(@, TuneConfigAt, TuneConfigGoodAt),
                   !.pc = "assign"]
    /\ UNCHANGED tuneOther

\* The next of the assignments tune_config_good[...] = ...
TuneAssign ==
    /\ tune.pc = "assign"
    /\ tune.done < Len(GoodPoint)
    /\ LET a == GoodPoint[tune.done + 1] IN
       tune' = [tune EXCEPT
                  !.heap = SetItem(@, TuneConfigGoodAt, a.path, a.value),
                  !.done = @ + 1]
    /\ UNCHANGED tuneOther

\* HyperOptSearch(tune_config, points_to_evaluate = [tune_config_good], ...):
\* the search space and the point it is handed, nested dicts followed.
TuneSearch ==
    /\ tune.pc = "assign"
    /\ tune.done = Len(GoodPoint)
    /\ tune' = [tune EXCEPT
                   !.pc = "searching",
                   !.space = tune.heap[TuneConfigAt],
                   !.space_optimizer =
                        tune.heap[tune.heap[TuneConfigAt].optimizer.n],
                   !.point = tune.heap[TuneConfigGoodAt],
                   !.point_optimizer =
                        tune.heap[tune.heap[TuneConfigGoodAt].optimizer.n]]
    /\ UNCHANGED tuneOther

\* main after the dict display: tune_config built from the command line.
TuneInit ==
    /\ OthersIdle
    /\ shard = NoShard
    /\ emb = NoEmb
    /\ dataset = NoDataset
    /\ \E ep \in 1..MaxEpochs, lr \in 0..MaxGpuId, ds \in BOOLEAN :
          LET h == TuneConfig(ep, lr, ds) IN
          tune = [pc |-> "copy", heap |-> h, built |-> h, done |-> 0,
                  space |-> h[TuneConfigAt],
                  space_optimizer |-> h[OptimizerAt],
                  point |-> h[TuneConfigAt],
                  point_optimizer |-> h[OptimizerAt]]

TuneNext ==
    \/ TuneCopy
    \/ TuneAssign
    \/ TuneSearch

TuneSpec == TuneInit /\ [][TuneNext]_vars

\* ------------------------------------------------------ EmbeddingCallback
\* Largest number of samples of the callback's data.
MaxSamples == 2

\* What EmbTrainBegin would be if only the embeddings were reset.
EmbTrainBeginKeepsIndex(c) == [c EXCEPT !.embeddings = <<>>, !.has_lists = TRUE]

\* EmbeddingCallback.on_train_begin: both lists are made anew.
EmbTrainBegin(c) ==
    [c EXCEPT !.embeddings = <<>>, !.data_index = <<>>, !.has_lists = TRUE]

\* EmbeddingCallback.on_epoch_end with the sample idx drawn, on the weights
\* `version`: encode may raise, and then nothing is appended; the appends
\* need the lists on_train_begin makes; tsne_plot runs last, if there is a
\* figure, and may raise after both appends.
EmbEpochEnd(c, idx, version, encode_ok, plot_ok) ==
    IF ~encode_ok THEN [c EXCEPT !.raised = "EncodeError"]
    ELSE IF ~c.has_lists THEN [c EXCEPT !.raised = "AttributeError"]
    ELSE LET appended ==
                 [c EXCEPT !.data_index = Append(@, idx),
                           !.embeddings = Append(@, [of |-> idx, model |-> version]),
                           !.raised = ""]
         IN IF c.fig /\ ~plot_ok
            THEN [appended EXCEPT !.raised = "PlotError"]
            ELSE appended

embOther == <<ctlVars, ctor, main, hp, shard, tune, dataset>>

\* A train() call begins: on_train_begin(logs).
EmbOnTrainBegin ==
    /\ emb.pc = "live"
    /\ emb.runs < MaxCalls
    /\ emb' = [EmbTrainBegin(emb) EXCEPT !.runs = @ + 1, !.epoch = 0,
                                          !.ends = 0, !.raised = ""]
    /\ UNCHANGED embOther

\* An epoch ends: on_epoch_end(epoch, logs).
EmbOnEpochEnd ==
    /\ emb.pc = "live"
    /\ emb.epoch < MaxEpochs
    /\ \E idx \in 0..(emb.data_len - 1), encode_ok \in BOOLEAN, plot_ok \in BOOLEAN :
          emb' = [EmbEpochEnd(emb, idx, emb.epoch + 1, encode_ok, plot_ok) EXCEPT
                     !.epoch = @ + 1,
                     !.ends = IF encode_ok /\ emb.has_lists THEN @ + 1 ELSE @]
    /\ UNCHANGED embOther

\* save(path): torch.save of both lists.
EmbSave ==
    /\ emb.pc = "live"
    /\ emb.has_lists
    /\ emb' = [emb EXCEPT !.saved = [embeddings |-> emb.embeddings,
                                      indices |-> emb.data_index]]
    /\ UNCHANGED embOther

\* EmbeddingCallback.__init__: no list yet.
EmbInit ==
    /\ OthersIdle
    /\ shard = NoShard
    /\ tune = NoTune
    /\ dataset = NoDataset
    /\ \E n \in 1..MaxSamples, fig \in BOOLEAN :
          emb = [pc |-> "live", data_len |-> n, fig |-> fig, has_lists |-> FALSE,
                 embeddings |-> <<>>, data_index |-> <<>>, runs |-> 0,
                 epoch |-> 0, ends |-> 0, raised |-> "",
                 saved |-> [embeddings |-> <<>>, indices |-> <<>>]]

EmbNext ==
    \/ EmbOnTrainBegin
    \/ EmbOnEpochEnd
    \/ EmbSave

EmbSpec == EmbInit /\ [][EmbNext]_vars

\* ------------------------------------------------------ ContactMapDataset
\* split_ptc is one of the fractions k / PtcDen.
PtcDen == 4

\* The splits asked for: the two the class knows and one it does not.
Splits == {"train", "valid", "test"}

\* ContactMapDataset.__init__ over a file of n rows with split_ptc =
\* num / PtcDen: the checks of the arguments, then (dense) the split index
\* int(split_ptc * len(self.dset)); with sparse = True self.dset is never
\* set and len(self.dset) raises AttributeError.
DatasetNew(split, num, n, sparse) ==
    IF split \notin {"train", "valid"}
    THEN [raised |-> "ValueError", split |-> split, split_ind |-> 0, n |-> n]
    ELSE IF num < 0 \/ num > PtcDen
    THEN [raised |-> "ValueError", split |-> split, split_ind |-> 0, n |-> n]
    ELSE IF sparse
    THEN [raised |-> "AttributeError", split |-> split, split_ind |-> 0, n |-> n]
    ELSE [raised |-> "", split |-> split, split_ind |-> (num * n) \div PtcDen,
          n |-> n]

\* ContactMapDataset.__len__
DatasetLen(d) == IF d.split = "train" THEN d.split_ind ELSE d.n - d.split_ind

\* What DatasetRow would be without the offset of the validation split.
DatasetRowNoOffset(d, idx) == idx

\* ContactMapDataset.__getitem__: the row of the file index idx reads.
DatasetRow(d, idx) == IF d.split = "valid" THEN idx + d.split_ind ELSE idx

datasetOther == <<ctlVars, ctor, main, hp, shard, tune, emb>>

\* ContactMapDataset(path, split_ptc, split, sparse = ...)
DatasetConstruct(split) ==
    /\ dataset.pc = "file"
    /\ split \notin DOMAIN dataset.objs
    /\ dataset' = [dataset EXCEPT
                      !.objs = Put(@, split,
                                   DatasetNew(split, dataset.num, dataset.n,
                                              dataset.sparse))]
    /\ UNCHANGED datasetOther

\* dataset[idx] for an index in range(len(dataset)).
DatasetGetItem(split) ==
    /\ dataset.pc = "file"
    /\ split \in DOMAIN dataset.objs
    /\ dataset.objs[split].raised = ""
    /\ \E idx \in 0..(DatasetLen(dataset.objs[split]) - 1) :
          dataset' = [dataset EXCEPT
                         !.read = [split |-> split, idx |-> idx,
                                   row |-> DatasetRow(dataset.objs[split], idx)]]
    /\ UNCHANGED datasetOther

\* A file of n rows, and the split_ptc and sparse every dataset over it is
\* made with.
DatasetInit ==
    /\ OthersIdle
    /\ shard = NoShard
    /\ tune = NoTune
    /\ emb = NoEmb
    /\ \E n \in 0..MaxRows, num \in -1..(PtcDen + 1), sparse \in BOOLEAN :
          dataset = [pc |-> "file", n |-> n, num |-> num, sparse |-> sparse,
                     objs |-> EmptyDict,
                     read |-> [split |-> "", idx |-> Absent, row |-> Absent]]

DatasetNext ==
    \/ \E split \in Splits : DatasetConstruct(split)
    \/ \E split \in Splits : DatasetGetItem(split)

DatasetSpec == DatasetInit /\ [][DatasetNext]_vars

\* ------------------------------------------------------------ the history
\* The hooks and steps of the running (or last) train() call.
Seg ==
    IF calls = <<>> THEN <<>>
    ELSE SubSeq(trace, calls[Len(calls)].at + 1, Len(trace))

\* How many entries of the sequence are event ev of epoch e.
Count(seq, ev, e) ==
    Cardinality({i \in DOMAIN seq : seq[i].ev = ev /\ seq[i].epoch = e})

\* The phase of an epoch an event belongs to (0: none).
Phase(ev) ==
    CASE ev = "on_epoch_begin" -> 1
      [] ev \in {"on_batch_begin", "train_step", "on_batch_end"} -> 2
      [] ev \in {"on_validation_begin", "valid_step",
                 "on_validation_batch_end", "on_validation_end"} -> 3
      [] ev = "on_epoch_end" -> 4
      [] OTHER -> 0

\* The epochs a sequence of events runs through, in order: the epochs of the
\* first training steps.
EpochsRun(seq) ==
    LET first == SelectSeq(seq, LAMBDA x : x.ev = "train_step" /\ x.batch = 0)
    IN [i \in DOMAIN first |-> first[i].epoch]

\* <<a, a + 1, ..., b>>, empty when a > b.
FromTo(a, b) == [i \in 1..(IF b >= a THEN b - a + 1 ELSE 0) |-> a + i - 1]

\* ---------------------------------------------------------------- claims
\* C1: within every epoch of a train() call the phases come in the order
\* on_epoch_begin of every callback, the whole training pass, the whole
\* validation pass, on_epoch_end of every callback; and an event of another
\* epoch follows only the last callback's on_epoch_end, for the next epoch.
\* Stated on the latest event and the one before it: every earlier phase of
\* the latest event's epoch is complete, and no later phase has begun.
C1_EpochPhaseOrder ==
    LET seg == Seg
        n == Len(seg)
        b == seg[n]
        a == seg[n - 1]
        k == Len(callbacks)
    IN (n >= 1 /\ Phase(b.ev) > 0) =>
        /\ Phase(b.ev) >= 2 => Count(seg, "on_epoch_begin", b.epoch) = k
        /\ Phase(b.ev) >= 3 =>
              /\ Count(seg, "on_batch_begin", b.epoch) = k * train_len
              /\ Count(seg, "train_step", b.epoch) = train_len
              /\ Count(seg, "on_batch_end", b.epoch) = k * train_len
        /\ Phase(b.ev) >= 4 =>
              /\ Count(seg, "on_validation_begin", b.epoch) = k
              /\ Count(seg, "valid_step", b.epoch) = valid_len
              /\ Count(seg, "on_validation_batch_end", b.epoch) = k * valid_len
              /\ Count(seg, "on_validation_end", b.epoch) = k
        /\ \A i \in 1..n : seg[i].epoch = b.epoch => Phase(seg[i].ev) <= Phase(b.ev)
        /\ (n >= 2 /\ Phase(a.ev) > 0 /\ a.epoch # b.epoch) =>
              /\ b.epoch = a.epoch + 1
              /\ Count(seg, "on_epoch_end", a.epoch) = k
              /\ Count(seg, "valid_step", a.epoch) = valid_len
              /\ Count(seg, "train_step", a.epoch) = train_len
              /\ Phase(b.ev) = IF k > 0 THEN 1 ELSE 2

C1_Witness ==
    /\ pc = "done"
    /\ Len(callbacks) = 2
    /\ train_len = 2
    /\ valid_len = 2
    /\ Count(Seg, "on_epoch_end", 3) = 2
    /\ Count(Seg, "on_epoch_end", 2) = 2

\* C2: in a train() call that returns, the call's first events are
\* on_train_begin of every callback in turn, its last events are
\* on_train_end of every callback in turn, neither hook fires anywhere else,
\* and at no time does any event follow an on_train_end except the next
\* callback's on_train_end.
C2_TrainBeginEndOnce ==
    LET seg == Seg
        n == Len(seg)
        k == Len(callbacks)
    IN /\ (n >= 2 /\ seg[n - 1].ev = "on_train_end") =>
             (seg[n].ev = "on_train_end" /\ seg[n].cb = seg[n - 1].cb + 1)
       /\ pc = "done" =>
             /\ n >= 2 * k
             /\ \A i \in 1..n :
                   /\ seg[i].ev = "on_train_begin" <=> i <= k
                   /\ seg[i].ev = "on_train_end" <=> i > n - k
                   /\ i <= k => seg[i].cb = i
                   /\ i > n - k => seg[i].cb = i - (n - k)

C2_Witness ==
    /\ pc = "done"
    /\ Len(callbacks) = 2
    /\ Count(Seg, "on_epoch_end", 2) = 2
    /\ Len(calls) = 2

\* C3: a train() call that returns has run exactly the epochs
\* start_epoch..epochs, in increasing order, each once, with start_epoch 1
\* when the checkpoint argument is None or empty and the checkpoint's epoch
\* plus 1 otherwise; and while on_train_begin fires the weights and the
\* optimizer state are already those of the checkpoint.
C3_EpochRange ==
    LET s == IF checkpoint.kind = "path" THEN checkpoint.file["epoch"].steps + 1
             ELSE 1
        seg == Seg
    IN /\ pc = "done" => EpochsRun(seg) = FromTo(s, epochs)
       /\ pc \notin {"idle", "raised"} => start_epoch = s
       /\ (pc = "on_train_begin" /\ checkpoint.kind = "path") =>
             /\ enc = checkpoint.file["encoder_state_dict"]
             /\ dec = checkpoint.file["decoder_state_dict"]
             /\ opt = checkpoint.file["optimizer_state_dict"]
             /\ Len(seg) = ci - 1
             /\ \A i \in 1..Len(seg) : seg[i].ev = "on_train_begin"

C3_Witness ==
    /\ pc = "done"
    /\ checkpoint.kind = "path"
    /\ EpochsRun(Seg) = <<2, 3>>

\* C4: resuming gives the epochs of an uninterrupted run.  A call from
\* scratch for E epochs runs 1..E and ends at epoch E; and a call from
\* scratch for E1 epochs followed by a call for E epochs from the checkpoint
\* written at epoch E1, 1 <= E1 < E, together run 1..E, each epoch once and
\* in order, and end at epoch E.
C4_ResumeIdempotent ==
    /\ (pc = "done" /\ Len(calls) = 1 /\ checkpoint.kind # "path"
            /\ epochs >= 1) =>
          (EpochsRun(trace) = FromTo(1, epochs) /\ epoch = epochs)
    /\ (pc = "done" /\ Len(calls) = 2 /\ calls[1].checkpoint.kind # "path"
            /\ checkpoint.kind = "path"
            /\ checkpoint.file["epoch"].steps = calls[1].epochs
            /\ 1 <= calls[1].epochs /\ calls[1].epochs < epochs) =>
          (EpochsRun(trace) = FromTo(1, epochs) /\ epoch = epochs)

C4_Witness ==
    /\ pc = "done"
    /\ Len(calls) = 2
    /\ calls[1].checkpoint.kind # "path"
    /\ calls[1].epochs = 1
    /\ checkpoint.kind = "path"
    /\ checkpoint.file["epoch"].steps = 1
    /\ epochs = 3
    /\ EpochsRun(trace) = <<1, 2, 3>>

\* C5: at every lifecycle point the callbacks are invoked once each, in
\* list order, on the shared logs: a hook of the first callback starts a
\* point not seen before in the call, a hook of a later callback directly
\* follows the same hook of the callback before it, and a point is left only
\* after the last callback.  Hence with callbacks [writer, reader] the
\* reader sees in each on_epoch_end(e) the writer's entry e as the latest.
C5_ListOrderSharedLogs ==
    LET seg == Seg
        n == Len(seg)
        b == seg[n]
        a == seg[n - 1]
        k == Len(callbacks)
        Same(x, y) == x.ev = y.ev /\ x.epoch = y.epoch /\ x.batch = y.batch
        reads == SelectSeq(trace, LAMBDA x :
                     x.ev = "on_epoch_end" /\ x.cb > 0
                         /\ callbacks[x.cb] = "reader")
    IN /\ (n >= 1 /\ b.cb > 0) =>
             /\ b.cb <= k
             /\ IF b.cb = 1
                THEN \A i \in 1..(n - 1) : ~Same(seg[i], b)
                ELSE n >= 2 /\ Same(a, b) /\ a.cb = b.cb - 1
       /\ (n >= 2 /\ a.cb > 0 /\ (b.cb = 0 \/ ~Same(a, b))) => a.cb = k
       /\ (pc = "done" /\ n >= 1) => b.cb = k
       /\ callbacks = <<"writer", "reader">> =>
             /\ Len(cbs.observed) = Len(reads)
             /\ \A j \in 1..Len(reads) :
                   /\ cbs.observed[j] # <<>>
                   /\ cbs.observed[j][Len(cbs.observed[j])] = reads[j].epoch

C5_Witness ==
    /\ pc = "done"
    /\ callbacks = <<"writer", "reader">>
    /\ cbs.observed = <<<<1>>, <<1, 2>>, <<1, 2, 3>>>>

\* C6: whenever on_batch_end fires, logs["global_step"] is
\* (epoch - 1) * len(train source) + the 0-based position of the batch in
\* the pass, also in the first epoch after a resume.
C6_GlobalStep ==
    LET seg == Seg
        n == Len(seg)
    IN /\ (pc = "on_batch_end" /\ ci <= Len(callbacks)) =>
             /\ logs["global_step"]
                    = (epoch - 1) * train_len + Count(seg, "train_step", epoch) - 1
             /\ batch_idx = Count(seg, "train_step", epoch) - 1
       /\ (n >= 1 /\ seg[n].ev = "on_batch_end") =>
             seg[n].global_step = (seg[n].epoch - 1) * train_len + seg[n].batch

C6_Witness ==
    /\ pc = "on_batch_end"
    /\ ci <= Len(callbacks)
    /\ checkpoint.kind = "path"
    /\ epoch = start_epoch
    /\ epoch = 2
    /\ batch_idx = 1
    /\ logs["global_step"] = 3

\* C7: two epochs from scratch over 10 training and 4 validation batches
\* with the loss callback leave 2 train_loss_average and 2 valid_loss entries
\* in the callback's history, each an average over 10 resp. 4 batches, and
\* the global_step values handed to on_batch_end are 0, 1, ..., 19.
C7_EndToEnd ==
    (pc = "done" /\ Len(calls) = 1 /\ train_len = 10 /\ valid_len = 4
        /\ epochs = 2 /\ checkpoint.kind # "path" /\ callbacks = <<"loss">>) =>
        LET ends == SelectSeq(trace, LAMBDA x : x.ev = "on_batch_end")
        IN /\ Len(cbs.train_losses) = 2
           /\ Len(cbs.valid_losses) = 2
           /\ \A i \in 1..2 : cbs.train_losses[i][2] = 10
           /\ \A i \in 1..2 : cbs.valid_losses[i][2] = 4
           /\ cbs.epochs = <<1, 2>>
           /\ [i \in DOMAIN ends |-> ends[i].global_step] = FromTo(0, 19)

C7_Witness ==
    /\ pc = "done"
    /\ Len(calls) = 1
    /\ train_len = 10
    /\ valid_len = 4
    /\ epochs = 2
    /\ callbacks = <<"loss">>
    /\ Len(cbs.train_losses) = 2
    /\ logs["global_step"] = 19

\* C8: a train() call given a checkpoint file that lacks one of its four
\* keys fails at once with the KeyError: no hook has fired, no epoch has
\* begun, and the call never goes on from epoch 1.
C8_CorruptCheckpointFails ==
    (pc # "idle" /\ checkpoint.kind = "path"
        /\ ~(CkptKeys \subseteq DOMAIN checkpoint.file)) =>
        /\ pc = "raised"
        /\ raised = "KeyError"
        /\ Seg = <<>>
        /\ epoch = Unbound

C8_Witness ==
    /\ pc = "raised"
    /\ raised = "KeyError"
    /\ callbacks # <<>>
    /\ DOMAIN checkpoint.file = CkptKeys \ {"epoch"}

\* C9: the load of a checkpoint is all-or-nothing: either the encoder, the
\* decoder and the optimizer all hold the checkpoint's state and its epoch is
\* returned, or the load failed and all three are as before the call.
C9_LoadAllOrNothing ==
    [][(pc = "idle" /\ pc' # "idle" /\ checkpoint.kind = "path") =>
          \/ /\ pc' # "raised"
             /\ enc' = checkpoint.file["encoder_state_dict"]
             /\ dec' = checkpoint.file["decoder_state_dict"]
             /\ opt' = checkpoint.file["optimizer_state_dict"]
             /\ start_epoch' = checkpoint.file["epoch"].steps + 1
          \/ /\ pc' = "raised"
             /\ enc' = enc
             /\ dec' = dec
             /\ opt' = opt]_vars

\* C10 as stated: a training step with non-finite gradients under mixed
\* precision leaves the weights and the optimizer state unchanged, makes the
\* loss scale strictly smaller, and goes on to on_batch_end without raising.
C10_SkippedStepShrinksScale ==
    [][(pc = "forward" /\ gscaler.enabled /\ cur.nonfinite) =>
          /\ enc' = enc
          /\ dec' = dec
          /\ opt' = opt
          /\ ScaleLess(gscaler'.scale, gscaler.scale)
          /\ pc' = "on_batch_end"
          /\ raised' = ""]_vars

\* C10 amended: as above, but the loss scale becomes strictly smaller only
\* while it is positive and finite; a scale that has reached zero (or
\* infinity) stays what it is.
C10_SkippedStepShrinksPositiveScale ==
    [][(pc = "forward" /\ gscaler.enabled /\ cur.nonfinite) =>
          /\ enc' = enc
          /\ dec' = dec
          /\ opt' = opt
          /\ IF gscaler.scale.kind # "finite"
             THEN gscaler'.scale = gscaler.scale
             ELSE ScaleLess(gscaler'.scale, gscaler.scale)
          /\ pc' = "on_batch_end"
          /\ raised' = ""]_vars

C10_Witness ==
    /\ pc = "on_batch_end"
    /\ gscaler.enabled
    /\ cur.nonfinite
    /\ gscaler.scale = Scale(InitScaleExp - 2)
    /\ enc = Stepped(InitWeights)
    /\ callbacks # <<>>

\* C11: the validation pass takes no optimizer step.  Every step taken inside
\* _validate, from model.eval() to the last on_validation_end, leaves the
\* weights, the optimizer state and the gradient scaler as they are; the
\* model is in evaluation mode whenever a validation hook is about to fire
\* or has fired; and the optimizer state advances by a step only in the
\* training step, with the model in training mode.
C11_ValidationTakesNoStep ==
    [][/\ pc \in {"_validate", "on_validation_begin", "valid_batch",
                  "valid_forward", "on_validation_batch_end", "valid_average",
                  "on_validation_end"} =>
             (enc' = enc /\ dec' = dec /\ opt' = opt /\ gscaler' = gscaler)
       /\ pc' \in {"on_validation_begin", "on_validation_batch_end",
                   "on_validation_end"} => ~training'
       /\ pc \in {"on_validation_begin", "on_validation_batch_end",
                  "on_validation_end"} => (~training /\ ~training')
       /\ opt' = Stepped(opt) => (training /\ pc = "forward")]_vars

C11_Witness ==
    /\ pc = "on_validation_end"
    /\ ci = 2
    /\ ~training
    /\ gscaler.enabled
    /\ gscaler.scale = Scale(InitScaleExp - 1)
    /\ opt = Stepped(InitWeights)

\* The losses a validation batch of the run can have, and the least and
\* the greatest of them.
ValidLosses ==
    {lambda_rec * l[1] + l[2] : l \in src.valid_losses}

MinLoss == CHOOSE x \in ValidLosses : \A y \in ValidLosses : x <= y

MaxLoss == CHOOSE x \in ValidLosses : \A y \in ValidLosses : x >= y

\* C12: in the validation pass of epoch e, every callback's
\* on_validation_begin(e) precedes the first batch; the batches are processed
\* in order 0, 1, ... and each is followed by on_validation_batch_end(e, b)
\* of every callback, once; logs["valid_loss"] is the sum of that pass's
\* batch losses over their number when on_validation_end(e) and
\* on_epoch_end(e) fire, which they do only after the last batch.  Stated on
\* the latest event of the call.
C12_ValidationPass ==
    LET seg == Seg
        n == Len(seg)
        b == seg[n]
        k == Len(callbacks)
        e == b.epoch
        done == Count(seg, "valid_step", e)
        BatchEnds(j) ==
            Cardinality({i \in 1..n : /\ seg[i].ev = "on_validation_batch_end"
                                      /\ seg[i].epoch = e
                                      /\ seg[i].batch = j})
    IN n >= 1 =>
        /\ b.ev = "valid_step" =>
              /\ Count(seg, "on_validation_begin", e) = k
              /\ b.batch = done - 1
              /\ \A j \in 0..(b.batch - 1) : BatchEnds(j) = k
              /\ BatchEnds(b.batch) = 0
              /\ Count(seg, "on_validation_end", e) = 0
              /\ valid_loss >= done * MinLoss
              /\ valid_loss <= done * MaxLoss
        /\ b.ev = "on_validation_batch_end" =>
              /\ b.batch = done - 1
              /\ BatchEnds(b.batch) = b.cb
              /\ seg[n - 1].ev = IF b.cb = 1 THEN "valid_step"
                                 ELSE "on_validation_batch_end"
              /\ seg[n - 1].batch = b.batch
        /\ b.ev \in {"on_validation_end", "on_epoch_end"} =>
              /\ done = valid_len
              /\ \A j \in 0..(valid_len - 1) : BatchEnds(j) = k
              /\ "valid_loss" \in DOMAIN logs
              /\ logs["valid_loss"] = <<valid_loss, valid_len>>
              /\ valid_loss >= valid_len * MinLoss
              /\ valid_loss <= valid_len * MaxLoss
        /\ b.ev = "on_validation_end" =>
              Count(seg, "on_validation_end", e) = b.cb
        /\ (b.ev = "on_epoch_end" /\ callbacks[b.cb] = "loss") =>
              cbs.valid_losses[Len(cbs.valid_losses)] = <<valid_loss, valid_len>>

C12_Witness ==
    /\ pc = "done"
    /\ valid_len = 2
    /\ cbs.valid_losses = <<<<2, 2>>, <<6, 2>>>>
    /\ Count(Seg, "on_validation_batch_end", 2) = 2

\* C13: a callback hook that raises ends the train() call there.  The step
\* in which a callback's hook raises leaves train() with that exception; and
\* once an exception has left train(), nothing more happens in the call: no
\* hook, no batch, and the call never returns.
C13_CallbackErrorPropagates ==
    [][/\ pc # "raised"
       /\ (/\ Len(trace') = Len(trace) + 1
           /\ trace'[Len(trace')].cb > 0
           /\ callbacks[trace'[Len(trace')].cb] = "raiser"
           /\ trace'[Len(trace')].ev = src.raise_at) =>
              (pc' = "raised" /\ raised' = "CallbackError")
       /\ raised # "" => pc = "raised"]_vars

C13_Witness ==
    /\ pc = "raised"
    /\ raised = "CallbackError"
    /\ src.raise_at = "on_batch_end"
    /\ train_len = 2
    /\ trace[Len(trace)] = Ev("on_batch_end", 2, 1, 0, 0)
    /\ cbs.observed = <<>>

\* The names of the directory that the discovery takes for checkpoints.
Matching ==
    {i \in 1..Len(main.listing) :
        EndsWithPt(main.listing[i]) /\ ReMatch(main.listing[i]).matched}

\* C14: with the resume flag set and no checkpoint given, the discovery
\* never raises, whatever the directory holds: it ends with train() called,
\* either with a file of the directory and "Resuming" printed, or with no
\* checkpoint and the "No checkpoint files" message printed.
C14_DiscoveryNeverFails ==
    (main.pc # "none" /\ main.resume /\ main.given = NoneArg) =>
       /\ main.pc # "raised"
       /\ main.raised = ""
       /\ main.pc = "training" =>
             \/ /\ \E i \in 1..Len(main.listing) : main.passed = main.listing[i]
                /\ main.printed = "Resuming from checkpoint"
             \/ /\ main.passed = NoneArg
                /\ main.printed = "No checkpoint files"

\* C15: with the resume flag set, no checkpoint given and at least one file
\* named epoch-<ordinal>-<timestamp>.pt in the directory, the discovery does
\* not raise, and the checkpoint train() is called with is such a file
\* whose timestamp no other such file's timestamp exceeds.
C15_LatestTimestamp ==
    (main.pc \in {"raised", "training"} /\ main.resume
        /\ main.given = NoneArg /\ Matching # {}) =>
       /\ main.pc = "training"
       /\ \E i \in Matching :
             /\ main.passed = main.listing[i]
             /\ \A j \in Matching :
                   ~StrLess(ReMatch(main.listing[i]).group,
                            ReMatch(main.listing[j]).group)

\* The requests of the device resolver's contract: absent (None, or a pair
\* holding None) and explicit (an int, or a pair of ids).
AbsentRequest(g) ==
    \/ g.type = "NoneType"
    \/ g.type = "tuple" /\ Len(g.val) = 2
          /\ (g.val[1] = Absent \/ g.val[2] = Absent)

ExplicitRequest(g) ==
    \/ g.type = "int"
    \/ g.type = "tuple" /\ Len(g.val) = 2
          /\ g.val[1] # Absent /\ g.val[2] # Absent

\* C16: the devices __init__ has resolved are those of the reference
\* mapping.  None and (None, None) both give the same target twice, the
\* accelerator if there is one and the CPU otherwise; a pair with one None
\* gives the same, whatever its id; and with an accelerator an int i gives
\* (device(i), device(i)) and a pair (a, b) gives (device(a), device(b)).
C16_DeviceReference ==
    LET g == ctor.gpu
        best == IF ctor.cuda THEN [type |-> "cuda", index |-> Absent]
                ELSE [type |-> "cpu", index |-> Absent]
        Dev(i) == [type |-> "cuda", index |-> i]
    IN (ctor.pc # "none" /\ "device" \in ctor.created) =>
        /\ g.type = "NoneType" => ctor.device = <<best, best>>
        /\ (g.type = "tuple" /\ Len(g.val) = 2 /\ g.val = <<Absent, Absent>>) =>
              ctor.device = <<best, best>>
        /\ (g.type = "tuple" /\ Len(g.val) = 2
               /\ (g.val[1] = Absent) # (g.val[2] = Absent)) =>
              ctor.device = <<best, best>>
        /\ (g.type = "int" /\ ctor.cuda) =>
              ctor.device = <<Dev(g.val[1]), Dev(g.val[1])>>
        /\ (g.type = "tuple" /\ Len(g.val) = 2 /\ g.val[1] # Absent
               /\ g.val[2] # Absent /\ ctor.cuda) =>
              ctor.device = <<Dev(g.val[1]), Dev(g.val[2])>>

C16_Witness ==
    /\ ctor.pc = "constructed"
    /\ ctor.gpu = GpuTuple(<<2, Absent>>)
    /\ ctor.cuda
    /\ ctor.device = <<Cuda(Absent), Cuda(Absent)>>

\* C17: once __init__ is past the device resolution, for a request of the
\* contract, the resolution has raised exactly if the request is explicit
\* and there is no accelerator; an absent request has not raised, and
\* without an accelerator it has given the CPU for both targets.
C17_DeviceErrorExactly ==
    LET g == ctor.gpu
        acted == ctor.pc # "none"
                    /\ ("device" \in ctor.created \/ ctor.raised = "ValueError")
    IN /\ (ctor.pc # "none" /\ ctor.raised = "ValueError") =>
             (ctor.pc = "raised" /\ "device" \notin ctor.created)
       /\ (acted /\ (AbsentRequest(g) \/ ExplicitRequest(g))) =>
             /\ ctor.raised = "ValueError" <=> (ExplicitRequest(g) /\ ~ctor.cuda)
             /\ (AbsentRequest(g) /\ ~ctor.cuda) =>
                   ctor.device = <<[type |-> "cpu", index |-> Absent],
                                   [type |-> "cpu", index |-> Absent]>>

C17_Witness ==
    /\ ctor.pc = "raised"
    /\ ctor.raised = "ValueError"
    /\ ctor.gpu = GpuTuple(<<1, 2>>)
    /\ ~ctor.cuda
    /\ ctor.created = {}

\* C18: __init__ validates both hyperparameter records before it creates
\* anything: while a validation is pending nothing is created, and with a
\* record whose validate() fails the constructor never gets past that
\* validation, ends with that error, and has created no device, model,
\* optimizer or scaler.
C18_ValidateBeforeResources ==
    (ctor.pc # "none") =>
       /\ ctor.pc \in {"hparams.validate", "optimizer_hparams.validate"} =>
             ctor.created = {}
       /\ ~ctor.hparams.valid =>
             /\ ctor.pc \in {"hparams.validate", "raised"}
             /\ ctor.created = {}
             /\ ctor.pc = "raised" => ctor.raised = "hparams.validate"
       /\ (ctor.hparams.valid /\ ~ctor.optimizer_hparams.valid) =>
             /\ ctor.pc \in {"hparams.validate", "optimizer_hparams.validate",
                              "raised"}
             /\ ctor.created = {}
             /\ ctor.pc = "raised" => ctor.raised = "optimizer_hparams.validate"

C18_Witness ==
    /\ ctor.pc = "raised"
    /\ ctor.raised = "optimizer_hparams.validate"
    /\ ctor.hparams.valid
    /\ ctor.gpu = GpuNone
    /\ ctor.created = {}

\* The interdependent fields of a record agree.
FieldsAgree(f) ==
    LET lens == {Len(f["filters"]), Len(f["kernels"]), Len(f["strides"])}
        alens == {Len(f["affine_widths"]), Len(f["affine_dropouts"])}
    IN lens = {f["num_conv_layers"]} /\ alens = {f["num_affine_layers"]}

\* C19: a record whose interdependent fields agree passes validation and
\* one whose fields disagree fails it: the constructor raises exactly for
\* disagreeing arguments, and validate() raises exactly for a record whose
\* fields, as they are now, disagree.
C19_ValidateAgreement ==
    (hp.pc # "none") =>
       /\ hp.pc # "construct" =>
             (hp.raised = "constructor" <=> ~FieldsAgree(hp.kwargs))
       /\ hp.pc = "validated" => FieldsAgree(hp.fields)
       /\ hp.raised = "validate" => ~FieldsAgree(hp.fields)

C19_Witness ==
    /\ hp.pc = "raised"
    /\ hp.raised = "validate"
    /\ hp.mutated
    /\ hp.kwargs["num_conv_layers"] = 2
    /\ hp.fields["num_conv_layers"] = 1
    /\ hp.fields["strides"] = <<1, 2>>

\* C20: a valid record saved and loaded comes back with every field as it
\* was, and loading it does not raise.
C20_SaveLoadRoundTrip ==
    (hp.pc # "none" /\ FieldsAgree(hp.fields)) =>
       /\ hp.raised # "load"
       /\ hp.pc = "loaded" =>
             /\ DOMAIN hp.loaded = DOMAIN hp.fields
             /\ \A k \in DOMAIN hp.fields : hp.loaded[k] = hp.fields[k]

C20_Witness ==
    /\ hp.pc = "loaded"
    /\ hp.fields["strides"] = <<1, 2>>
    /\ hp.loaded["strides"] = <<1, 2>>
    /\ hp.loaded["filters"] = <<64, 64>>
    /\ hp.loaded["affine_widths"] = <<128>>
    /\ hp.loaded["num_conv_layers"] = 2

\* How many entries of the sequence are event ev of batch b of epoch e.
BatchCount(seq, ev, e, b) ==
    Cardinality({i \in DOMAIN seq :
        seq[i].ev = ev /\ seq[i].epoch = e /\ seq[i].batch = b})

\* C21: within a training pass, for each batch b: every callback's
\* on_batch_begin(b) precedes the step of b; the stored gradients are cleared
\* before the backward pass of b, so after it they are those of b alone; the
\* logs entries train_loss, train_loss_rec, train_loss_kld and global_step of
\* b are written after the on_batch_begin hooks and before the on_batch_end
\* hooks of b; and batch b + 1 begins only after every callback's
\* on_batch_end(b).
C21_BatchStepOrder ==
    LET seg == Seg
        n == Len(seg)
        k == Len(callbacks)
    IN n >= 1 =>
       LET x == seg[n] IN
       /\ x.ev = "train_step" =>
             /\ BatchCount(seg, "on_batch_begin", x.epoch, x.batch) = k
             /\ BatchCount(seg, "on_batch_end", x.epoch, x.batch) = 0
             /\ grad = {<<x.epoch, x.batch>>}
             /\ k > 0 =>
                   /\ logs["train_loss"] = Loss(lambda_rec, cur)
                   /\ logs["train_loss_rec"] = cur.rec
                   /\ logs["train_loss_kld"] = cur.kld
                   /\ logs["global_step"] = GlobalStep(x.epoch, train_len, x.batch)
       /\ x.ev = "on_batch_begin" =>
             /\ BatchCount(seg, "train_step", x.epoch, x.batch) = 0
             /\ x.global_step =
                    IF x.epoch = start_epoch /\ x.batch = 0 THEN Unbound
                    ELSE GlobalStep(x.epoch, train_len, x.batch) - 1
             /\ x.batch > 0 =>
                   /\ BatchCount(seg, "train_step", x.epoch, x.batch - 1) = 1
                   /\ BatchCount(seg, "on_batch_end", x.epoch, x.batch - 1) = k
       /\ x.ev = "on_batch_end" =>
             /\ BatchCount(seg, "train_step", x.epoch, x.batch) = 1
             /\ BatchCount(seg, "on_batch_begin", x.epoch, x.batch) = k
             /\ x.global_step = GlobalStep(x.epoch, train_len, x.batch)
             /\ logs["train_loss"] = Loss(lambda_rec, cur)

C21_Witness ==
    /\ pc = "on_batch_begin"
    /\ ci = 2
    /\ Len(callbacks) = 2
    /\ epoch = 2
    /\ batch_idx = 1
    /\ grad = {<<2, 0>>}
    /\ logs["global_step"] = GlobalStep(2, train_len, 0)
    /\ BatchCount(Seg, "on_batch_end", 2, 0) = 2

\* The loss of every training batch of a run whose source yields one loss.
BatchLoss ==
    LET l == CHOOSE l \in src.losses : TRUE IN
    Loss(lambda_rec, [rec |-> l[1], kld |-> l[2]])

\* C22: a training batch whose optimizer step is skipped for non-finite
\* gradients still counts: its loss is written to logs["train_loss"] and
\* added to the running sum, and train_loss_average is the sum of the losses
\* of all batches of the epoch over the number of batches yielded, however
\* many of the steps were skipped.
C22_SkippedBatchCounts ==
    LET seg == Seg
        n == Len(seg)
    IN (n >= 1 /\ Cardinality(src.losses) = 1) =>
       /\ seg[n].ev = "train_step" =>
             /\ train_loss = (seg[n].batch + 1) * BatchLoss
             /\ callbacks # <<>> => logs["train_loss"] = BatchLoss
       /\ (pc \in {"_validate", "on_validation_begin"} /\ callbacks # <<>>) =>
             logs["train_loss_average"] = <<train_len * BatchLoss, train_len>>

C22_Witness ==
    /\ pc = "_validate"
    /\ gscaler.enabled
    /\ train_len = 2
    /\ enc.steps = 1
    /\ cur.nonfinite
    /\ logs["train_loss"] = 3
    /\ logs["train_loss_average"] = <<6, 2>>

\* The running call was given a complete checkpoint of an epoch at or past
\* its epochs argument, or no checkpoint and epochs < 1.
NothingToRun ==
    IF Truthy(checkpoint)
    THEN /\ CkptKeys \subseteq DOMAIN checkpoint.file
         /\ ReturnedEpoch(checkpoint.file) >= epochs
    ELSE epochs < 1

\* C23: a train() call whose checkpoint's epoch is at or past the epochs
\* argument (or, without a checkpoint, whose epochs is below 1) runs no
\* epoch: no hook other than on_train_begin and on_train_end fires and no
\* step is taken; on_train_begin and on_train_end fire once per callback, the
\* call returns normally, and the model and the optimizer hold the
\* checkpoint's state.
C23_NothingToRun ==
    LET seg == Seg IN
    (calls # <<>> /\ pc # "idle" /\ NothingToRun /\ src.raise_at = "") =>
       /\ \A i \in DOMAIN seg : seg[i].ev \in {"on_train_begin", "on_train_end"}
       /\ pc \in {"on_train_begin", "epoch_loop", "on_train_end", "done"}
       /\ raised = ""
       /\ Truthy(checkpoint) =>
             /\ enc = checkpoint.file["encoder_state_dict"]
             /\ dec = checkpoint.file["decoder_state_dict"]
             /\ opt = checkpoint.file["optimizer_state_dict"]
       /\ pc = "done" =>
             /\ Count(seg, "on_train_begin", Unbound) = Len(callbacks)
             /\ Count(seg, "on_train_end", Unbound) = Len(callbacks)

C23_Witness ==
    /\ pc = "done"
    /\ Len(calls) = 1
    /\ checkpoint = Path(GivenFile(1))
    /\ epochs = 1
    /\ callbacks = <<"ckpt", "loss">>
    /\ Len(trace) = 5
    /\ enc = FileWeights
    /\ opt = FileWeights

\* C24: over a train source that yields no batch, the training pass of the
\* first epoch the call runs fails when it computes the epoch average
\* (batch_idx is unbound), after the on_epoch_begin hooks and before any
\* validation: train_loss_average is never written to logs, and no later
\* hook (on_epoch_end, on_train_end) fires.
C24_EmptySourceFails ==
    LET seg == Seg
        n == Len(seg)
    IN (calls # <<>> /\ pc # "idle" /\ train_len = 0 /\ epoch # Unbound) =>
       /\ epoch = start_epoch
       /\ pc \in {"on_epoch_begin", "_train", "train_batch", "train_average",
                  "raised"}
       /\ "train_loss_average" \notin DOMAIN logs
       /\ \A i \in DOMAIN seg : seg[i].ev \in {"on_train_begin", "on_epoch_begin"}
       /\ pc = "raised" =>
             /\ raised = "UnboundLocalError"
             /\ Count(seg, "on_epoch_begin", epoch) = Len(callbacks)

C24_Witness ==
    /\ pc = "raised"
    /\ raised = "UnboundLocalError"
    /\ train_len = 0
    /\ valid_len = 1
    /\ callbacks = <<"loss">>
    /\ Len(Seg) = 2
    /\ Seg[2].ev = "on_epoch_begin"

\* The first batch of a call that resumed from a checkpoint is about to be
\* stepped.
FirstResumedBatch ==
    /\ calls # <<>>
    /\ pc = "forward"
    /\ Truthy(checkpoint)
    /\ epoch = start_epoch
    /\ batch_idx = 0

\* C25 as stated: whenever train() resumes from a checkpoint, the loss scale
\* in effect for the first resumed batch is the scaler's initial value,
\* whatever the scale was when the checkpoint was written and whatever the
\* earlier train() calls on the same object did.
C25_ScalerInitialOnResume ==
    FirstResumedBatch => gscaler.scale = NewScaler(gscaler.enabled).scale

\* C25, amended: a checkpoint holds no scaler state and loading one leaves
\* the scaler as it is, and nothing before a training step changes it, so
\* the loss scale in effect for the first resumed batch is the one the
\* object's scaler had when train() was called: the initial value on a newly
\* constructed object, the scale the earlier calls left on an object that
\* trained before.
C25_ScalerKeptOnResume ==
    [][/\ (pc = "idle" /\ Truthy(checkpoint)) =>
             (gscaler' = gscaler /\ DOMAIN checkpoint.file \subseteq CkptKeys)
       /\ pc # "forward" => gscaler' = gscaler
       /\ (FirstResumedBatch /\ Len(calls) = 1) =>
             gscaler = NewScaler(gscaler.enabled)]_vars

C25_Witness ==
    /\ FirstResumedBatch
    /\ Len(calls) = 2
    /\ gscaler.enabled
    /\ gscaler.scale = Scale(InitScaleExp - 1)
    /\ epoch = 2
    /\ checkpoint.file["epoch"].steps = 1

\* A request that is None, an int or a 2-tuple.
WellFormedRequest(g) ==
    \/ g.type \in {"NoneType", "int"}
    \/ g.type = "tuple" /\ Len(g.val) = 2

\* C27: once __init__ is past the device resolution, a request that is not
\* None, an int or a 2-tuple has been rejected with an error, with or without
\* an accelerator and whether or not the tuple holds None; only None, an int
\* and a 2-tuple have resolved to a device pair.
C27_RejectsIllFormedRequest ==
    LET g == ctor.gpu IN
    (ctor.pc # "none") =>
       /\ ("device" \in ctor.created) => WellFormedRequest(g)
       /\ (~WellFormedRequest(g)
             /\ ctor.pc \notin {"hparams.validate", "optimizer_hparams.validate",
                                "device"}
             /\ ctor.raised \notin {"hparams.validate",
                                    "optimizer_hparams.validate"}) =>
             (ctor.raised = "ValueError" /\ ctor.pc = "raised")

\* The shards of a dataset of n rows, one per rank that has split it, are
\* the ranges [chunk * r, chunk * (r + 1)) with chunk = n \div comm_size:
\* each of size chunk, inside [0, n), and pairwise disjoint.
ShardsApart(n, shards, split) ==
    LET chunk == n \div shard.comm_size IN
    /\ \A r \in split :
          /\ shards[r] = Range(chunk * r, chunk * (r + 1))
          /\ Len(shards[r]) = chunk
          /\ Elems(shards[r]) \subseteq 0..(n - 1)
    /\ \A r, q \in split : r # q => Elems(shards[r]) \cap Elems(shards[q]) = {}

\* C26: with comm_size > 1 processes the shard of rank r is the index range
\* [chunk * r, chunk * (r + 1)) with chunk = floor(N / comm_size): the shards
\* of two distinct ranks are disjoint, every shard has chunk elements and
\* lies inside [0, N), for the train and for the validation dataset.
C26_ShardsDisjoint ==
    (shard.pc # "none" /\ shard.comm_size > 1) =>
       /\ ShardsApart(shard.train_n, shard.train,
                      {r \in DOMAIN shard.at : shard.at[r] # "train"})
       /\ ShardsApart(shard.valid_n, shard.valid,
                      {r \in DOMAIN shard.at : shard.at[r] = "done"})

C26_Witness ==
    /\ shard.pc = "split"
    /\ shard.comm_size = 2
    /\ shard.train_n = 5
    /\ shard.valid_n = 3
    /\ \A r \in DOMAIN shard.at : shard.at[r] = "done"
    /\ shard.train[0] = <<0, 1>>
    /\ shard.train[1] = <<2, 3>>
    /\ shard.valid[1] = <<1>>

\* The keys of tune_config_good main assigns at the top level.
TopLevelKeys == {"batch_size", "latent_dim", "encoder_kernel_sizes", "noise_std"}

\* C28: tune_config_good is a shallow copy of tune_config.  Assigning its
\* top-level keys batch_size, latent_dim, encoder_kernel_sizes and noise_std
\* leaves tune_config's search-space entries for those keys as they were
\* built, but tune_config_good["optimizer"]["lr"] = 1e-4 also overwrites
\* tune_config["optimizer"]["lr"], both dicts holding the same nested
\* optimizer dict; so the search space handed to HyperOptSearch has the
\* fixed lr 1e-4.
C28_ShallowCopyAliasesOptimizer ==
    (tune.pc # "none") =>
       LET h == tune.heap
           was == tune.built[TuneConfigAt]
       IN /\ \A k \in TopLevelKeys : h[TuneConfigAt][k] = was[k]
          /\ tune.pc # "copy" =>
                /\ h[TuneConfigGoodAt].optimizer = h[TuneConfigAt].optimizer
                /\ \A i \in 1..tune.done :
                      LET a == GoodPoint[i] IN
                      Len(a.path) = 1 => h[TuneConfigGoodAt][a.path[1]] = a.value
          /\ tune.done >= 2 =>
                /\ h[h[TuneConfigAt].optimizer.n].lr = PowerOfTen(-4)
                /\ h[h[TuneConfigGoodAt].optimizer.n].lr = PowerOfTen(-4)
          /\ tune.pc = "searching" =>
                /\ tune.space_optimizer.lr = PowerOfTen(-4)
                /\ \A k \in TopLevelKeys : tune.space[k] = was[k]
                /\ tune.point["batch_size"] = Number(3)
                /\ tune.point_optimizer.lr = PowerOfTen(-4)

C28_Witness ==
    /\ tune.pc = "searching"
    /\ tune.built[OptimizerAt].lr = Space(2)
    /\ tune.space_optimizer.lr = PowerOfTen(-4)
    /\ tune.space["batch_size"] = Space(1)
    /\ tune.point["batch_size"] = Number(3)
    /\ tune.point["noise_std"] = Number(0)

\* C29: EmbeddingCallback keeps its two lists in step.  From on_train_begin
\* on, which empties both, each has one entry per on_epoch_end since then
\* whose encode succeeded, entry k of data_index being the sample that gave
\* entry k of embeddings; and save() writes lists of equal length.
C29_ListsInStep ==
    (emb.pc # "none") =>
       /\ emb.has_lists =>
             /\ Len(emb.embeddings) = emb.ends
             /\ Len(emb.data_index) = emb.ends
             /\ \A k \in DOMAIN emb.embeddings :
                   emb.embeddings[k].of = emb.data_index[k]
       /\ ~emb.has_lists => (emb.embeddings = <<>> /\ emb.data_index = <<>>)
       /\ Len(emb.saved.embeddings) = Len(emb.saved.indices)

C29_Witness ==
    /\ emb.pc = "live"
    /\ emb.runs = 2
    /\ emb.epoch = 3
    /\ emb.ends = 2
    /\ emb.raised = "PlotError"
    /\ emb.data_index = <<1, 0>>
    /\ emb.embeddings = <<[of |-> 1, model |-> 1], [of |-> 0, model |-> 3]>>
    /\ Len(emb.saved.indices) = 3

\* The rows of the file the in-range indices of a dataset read.
RowsRead(d) == {DatasetRow(d, idx) : idx \in 0..(DatasetLen(d) - 1)}

\* C30: for a dense file of N rows and a split_ptc in [0, 1], the train and
\* the valid dataset partition the rows: len(train) + len(valid) = N with
\* len(train) = floor(split_ptc * N); train index i reads row i and valid
\* index j reads row len(train) + j; so over the in-range indices no row is
\* read by both and every row is read by one.
C30_SplitsPartitionRows ==
    (dataset.pc # "none") =>
       LET o == dataset.objs IN
       /\ \A sp \in DOMAIN o \cap {"train", "valid"} :
             (o[sp].raised = "")
                <=> (~dataset.sparse /\ 0 <= dataset.num /\ dataset.num <= PtcDen)
       /\ ({"train", "valid"} \subseteq DOMAIN o
              /\ o["train"].raised = "" /\ o["valid"].raised = "") =>
             /\ DatasetLen(o["train"]) + DatasetLen(o["valid"]) = dataset.n
             /\ DatasetLen(o["train"]) = (dataset.num * dataset.n) \div PtcDen
             /\ \A i \in 0..(DatasetLen(o["train"]) - 1) :
                   DatasetRow(o["train"], i) = i
             /\ \A j \in 0..(DatasetLen(o["valid"]) - 1) :
                   DatasetRow(o["valid"], j) = DatasetLen(o["train"]) + j
             /\ RowsRead(o["train"]) \cap RowsRead(o["valid"]) = {}
             /\ RowsRead(o["train"]) \cup RowsRead(o["valid"])
                    = 0..(dataset.n - 1)
             /\ dataset.read.split = "valid" =>
                   dataset.read.row = DatasetLen(o["train"]) + dataset.read.idx
             /\ dataset.read.split = "train" =>
                   dataset.read.row = dataset.read.idx

C30_Witness ==
    /\ dataset.pc = "file"
    /\ dataset.n = 5
    /\ dataset.num = 3
    /\ {"train", "valid"} \subseteq DOMAIN dataset.objs
    /\ DatasetLen(dataset.objs["train"]) = 3
    /\ DatasetLen(dataset.objs["valid"]) = 2
    /\ dataset.read = [split |-> "valid", idx |-> 1, row |-> 4]

====
